---- MODULE Spec2Model ----
(***************************************************************************)
(* State-machine model of MusicTagger (src/src/tagger.rs): one session     *)
(* object over an audio file that is held either as a byte buffer or as a  *)
(* path, with the field getters/setters that go through the selected tag.  *)
(*                                                                         *)
(* Rust Option<T> is modelled as a sequence of length <= 1: <<>> is None   *)
(* and <<x>> is Some(x).  A byte buffer is a sequence of chunks, so that   *)
(* Vec::is_empty is Len = 0.  The container engine (lofty) is modelled at  *)
(* the calls tagger.rs makes to it.                                        *)
(***************************************************************************)
EXTENDS Integers, Sequences, FiniteSets, TLC

VARIABLES wasm, inner, fs, op, result, fsLog, tagLog, calls

vars == <<wasm, inner, fs, op, result, fsLog, tagLog, calls>>

----------------------------------------------------------------------------
(* Option<T> *)

None == <<>>

Some(x) == <<x>>

is_some(o) == o # <<>>

is_none(o) == o = <<>>

unwrap(o) == o[1]

----------------------------------------------------------------------------
(* Error values: napi Error::new(status, message) *)

ERR_NO_TAG == "File must contain at least one tag"

ERR_DISPOSED == "File has been disposed"

ERR_INVALID_IN_WASM == "This method is invalid in wasm build"

ERR_INVALID_RATING == "Rating should be integer in [1, 5]"

ERR_NO_TARGET == "No file path or buffer setup"

Error(status, msg) == [status |-> status, msg |-> msg]

Ok(v) == [ok |-> TRUE, val |-> v, err |-> Error("Ok", "")]

Err(e) == [ok |-> FALSE, val |-> <<>>, err |-> e]

\* The error kinds of the specification, as the code raises them.
Disposed == Error("GenericFailure", ERR_DISPOSED)

InvalidInput == Error("InvalidArg", "lofty error")

NoTagPresentAtLoad == Error("InvalidArg", ERR_NO_TAG)

NoTagPresent == Error("GenericFailure", ERR_NO_TAG)

InvalidArgument == Error("InvalidArg", ERR_INVALID_RATING)

UnsupportedEnvironment == Error("GenericFailure", ERR_INVALID_IN_WASM)

NoTargetAvailable == Error("GenericFailure", ERR_NO_TARGET)

WriteFailed(what) == Error("GenericFailure", what)

IsWriteFailed(e) ==
    /\ e.status = "GenericFailure"
    /\ e.msg \in {"Failed to save buffer", "Failed writing to custom path",
                  "Failed copying", "Failed saving to file"}

----------------------------------------------------------------------------
(* The container engine as tagger.rs uses it: file types, tags, items.     *)

\* ItemKey values the accessors use.
Keys == {"TrackTitle", "TrackArtist", "AlbumTitle", "RecordingDate", "Genre",
         "TrackNumber", "DiscNumber", "TrackTotal", "DiscTotal", "Comment",
         "AlbumArtist", "Composer", "Conductor", "Lyricist", "Publisher",
         "Lyrics", "CopyrightMessage", "Popularimeter",
         "ReplayGainTrackGain", "ReplayGainTrackPeak",
         "ReplayGainAlbumGain", "ReplayGainAlbumPeak"}

\* StarRating, and the text Popularimeter::custom("", rating, 0) prints.
Stars == {"One", "Two", "Three", "Four", "Five"}

PopmText ==
    [s \in Stars |->
        CASE s = "One" -> "|1|0"
          [] s = "Two" -> "|2|0"
          [] s = "Three" -> "|3|0"
          [] s = "Four" -> "|4|0"
          [] s = "Five" -> "|5|0"]

\* A tag: its type, for each key the text stored under it, if any, and its
\* pictures in stored order.
NoItems == [k \in Keys |-> None]

Tag(tt, items) == [tag_type |-> tt, items |-> items, pictures |-> <<>>]

\* The tag types the container engine reads from a file of each type.
TagTypesOf(ft) ==
    CASE ft = "Mpeg" -> {"Id3v2", "Id3v1", "Ape"}
      [] ft = "Flac" -> {"VorbisComments", "Id3v2"}
      [] ft = "Opus" -> {"VorbisComments"}
      [] ft = "Mp4" -> {"Mp4Ilst"}
      [] ft = "Ape" -> {"Ape", "Id3v1", "Id3v2"}
      [] ft = "Wav" -> {"RiffInfo", "Id3v2"}
      [] ft = "Aiff" -> {"Id3v2", "AiffText"}
      [] OTHER -> {}

\* FileType::supports_tag_type: the tag types the engine writes into a
\* file of each type.  An ID3v2 tag found in a FLAC or an APE file is read
\* and never written.
supports_tag_type(ft, tt) ==
    tt \in TagTypesOf(ft) /\ ~(ft \in {"Flac", "Ape"} /\ tt = "Id3v2")

\* Tag::insert_text returns false, inserting nothing, when the tag's format
\* has no mapping for the key; the setters drop that result.  ID3v1 has its
\* seven fixed fields (its year is the recording date), the text chunks of
\* AIFF and the INFO list of RIFF have a few named fields; ID3v2, Vorbis
\* comments, APE and the MP4 item list map every key the accessors use.
Supports(tt, k) ==
    CASE tt = "Id3v1" -> k \in {"TrackTitle", "TrackArtist", "AlbumTitle",
                                "RecordingDate", "Comment", "TrackNumber",
                                "Genre"}
      [] tt = "AiffText" -> k \in {"TrackTitle", "TrackArtist", "Comment",
                                   "CopyrightMessage"}
      [] tt = "RiffInfo" -> k \in {"TrackTitle", "TrackArtist", "AlbumTitle",
                                   "RecordingDate", "Genre", "TrackNumber",
                                   "TrackTotal", "Comment", "Composer",
                                   "CopyrightMessage"}
      [] OTHER -> TRUE

insert_text(tag, k, v) ==
    IF Supports(tag.tag_type, k)
    THEN [tag EXCEPT !.items[k] = Some(v)]
    ELSE tag

\* Faulty variant: clearing writes an empty text under the key.
remove_key_as_empty_text(tag, k) == [tag EXCEPT !.items[k] = Some("")]

remove_key(tag, k) == [tag EXCEPT !.items[k] = None]

get_string(tag, k) == tag.items[k]

\* Tag::ratings().next().map(|p| p.rating): the star rating the stored
\* popularimeter text parses to, if it parses.
first_rating(tag) ==
    LET txt == get_string(tag, "Popularimeter")
    IN IF is_some(txt) /\ \E s \in Stars : PopmText[s] = unwrap(txt)
       THEN Some(CHOOSE s \in Stars : PopmText[s] = unwrap(txt))
       ELSE None

\* The tag type a file type designates as primary.
primary_tag_type(ft) ==
    CASE ft = "Mpeg" -> "Id3v2"
      [] ft \in {"Flac", "Opus"} -> "VorbisComments"
      [] ft = "Mp4" -> "Mp4Ilst"
      [] ft \in {"Ape", "WavPack"} -> "Ape"
      [] OTHER -> "Id3v2"

\* Index into file.tags of the primary tag, of the first tag; 0 if none.
primary_tag(file) ==
    IF \E i \in 1..Len(file.tags) :
           file.tags[i].tag_type = primary_tag_type(file.file_type)
    THEN CHOOSE i \in 1..Len(file.tags) :
           /\ file.tags[i].tag_type = primary_tag_type(file.file_type)
           /\ \A j \in 1..(i - 1) :
                  file.tags[j].tag_type # primary_tag_type(file.file_type)
    ELSE 0

first_tag(file) == IF Len(file.tags) > 0 THEN 1 ELSE 0

\* Tag::picture_count
picture_count(tag) == Len(tag.pictures)

\* Tag::set_picture(index, picture), index counted from 0: replaces the
\* picture at index, or pushes the picture when index is past the end.
set_picture(tag, index, picture) ==
    IF index >= Len(tag.pictures)
    THEN [tag EXCEPT !.pictures = Append(@, picture)]
    ELSE [tag EXCEPT !.pictures[index + 1] = picture]

\* Tag::remove_picture(index) is Vec::remove, which panics when index is
\* out of bounds; in bounds it shifts the later pictures down.
remove_picture_in_bounds(tag, index) == index < Len(tag.pictures)

remove_picture(tag, index) ==
    [tag EXCEPT !.pictures =
        SubSeq(@, 1, index) \o SubSeq(@, index + 2, Len(@))]

\* Whether a tag format has a place for pictures when it is written out.
stores_pictures(tt) == tt \notin {"Id3v1", "AiffText", "RiffInfo"}

\* The genres ID3v1 numbers 0, 1 and 2; the texts of the model name no
\* other genre of its table.
Id3v1Genres == {"Blues", "Classic Rock", "Country"}

\* Whether text v under key k has a place in a written tag of type tt: the
\* format maps the key, and the genre byte of ID3v1 takes a genre of its
\* table only.  (The texts of the model fit the thirty bytes of an ID3v1
\* field.)
is_written(tt, k, v) ==
    /\ Supports(tt, k)
    /\ (tt = "Id3v1" /\ k = "Genre") => v \in Id3v1Genres

\* The tag as its format writes it: the items the format has a place for,
\* and pictures when it has a picture frame.
as_written(tag) ==
    [tag EXCEPT
        !.items = [k \in Keys |->
                      IF is_some(@[k])
                         /\ is_written(tag.tag_type, k, unwrap(@[k]))
                      THEN @[k] ELSE None],
        !.pictures = IF stores_pictures(tag.tag_type) THEN @ ELSE <<>>]

\* Tag::is_empty
is_empty(tag) == tag.items = NoItems /\ tag.pictures = <<>>

----------------------------------------------------------------------------
(* Byte buffers: <<>> is the empty buffer; an audio file is a header chunk, *)
(* its tag chunks in the file's order, and the audio payload.              *)

\* FileProperties; two channels unless stated otherwise.
Props(sr, bd, br, dur) ==
    [sample_rate |-> sr, bit_depth |-> bd, audio_bitrate |-> br,
     duration_ms |-> dur, channels |-> Some(2)]

HdrChunk(ft) == <<"hdr", ft>>

TagChunk(tag) == <<"tag", tag>>

AudioChunk(props, size) == <<"audio", props, size>>

IsTagChunk(c) == c[1] = "tag"

TagChunks(tags) == [i \in 1..Len(tags) |-> TagChunk(tags[i])]

\* Vec::len of a buffer, in bytes.
ChunkLen(c) ==
    CASE c[1] = "hdr" -> 4
      [] c[1] = "tag" -> 10 + Cardinality({k \in Keys : is_some(c[2].items[k])})
                            + 20 * Len(c[2].pictures)
      [] c[1] = "audio" -> c[3]
      [] OTHER -> 1

RECURSIVE ByteLen(_)
ByteLen(bytes) ==
    IF bytes = <<>> THEN 0 ELSE ChunkLen(Head(bytes)) + ByteLen(Tail(bytes))

\* The file type the probe guesses from the head of the bytes, if any.
guess_file_type(bytes) ==
    IF Len(bytes) = 0 \/ bytes[1][1] # "hdr" THEN None ELSE Some(bytes[1][2])

IsTagChunkOf(c, tt) == IsTagChunk(c) /\ c[2].tag_type = tt

\* Probe::guess_file_type()?.read()?: the parsed file, or an error.  The
\* reader of a file type looks for the tag types of that type only.
probe_read(bytes) ==
    IF is_none(guess_file_type(bytes))
    THEN Err(InvalidInput)
    ELSE LET ft == unwrap(guess_file_type(bytes))
             IsRead(c) == IsTagChunk(c) /\ c[2].tag_type \in TagTypesOf(ft)
             tagcs == SelectSeq(bytes, IsRead)
             audio == bytes[Len(bytes)]
         IN Ok([file_type |-> ft,
                tags |-> [i \in 1..Len(tagcs) |-> tagcs[i][2]],
                props |-> audio[2]])

\* Tag::save_to on a container that takes the tag's type: the tag of that
\* type in `bytes` is replaced by `tag` as its format writes it; a tag that
\* writes nothing is stripped from the container, and a tag the container
\* did not have is added after the others.
write_tag(tag, bytes) ==
    LET tt == tag.tag_type
        IsOther(c) == ~IsTagChunkOf(c, tt)
        new == IF is_empty(as_written(tag)) THEN <<>>
               ELSE <<TagChunk(as_written(tag))>>
        at == IF \E i \in 1..Len(bytes) : IsTagChunkOf(bytes[i], tt)
              THEN CHOOSE i \in 1..Len(bytes) :
                       /\ IsTagChunkOf(bytes[i], tt)
                       /\ \A j \in 1..(i - 1) : IsOther(bytes[j])
              ELSE Len(bytes)
    IN SelectSeq(SubSeq(bytes, 1, at - 1), IsOther)
       \o new
       \o SelectSeq(SubSeq(bytes, at, Len(bytes)), IsOther)

\* The first tag of `file` that a container of the type of `bytes` does not
\* take: Tag::save_to fails on it with UnsupportedTag.  0 if there is none.
first_unsupported(file, bytes) ==
    LET ft == unwrap(guess_file_type(bytes))
        bad == {i \in 1..Len(file.tags) :
                    ~supports_tag_type(ft, file.tags[i].tag_type)}
    IN IF bad = {} THEN 0 ELSE CHOOSE i \in bad : \A j \in bad : i <= j

\* The first n tags written one after the other.
RECURSIVE write_tags(_, _, _)
write_tags(tags, n, bytes) ==
    IF n = 0 THEN bytes ELSE write_tag(tags[n], write_tags(tags, n - 1, bytes))

\* Faulty variant: saving leaves the container's old tags in place.
save_to_keeps_old_tags(file, bytes) == bytes

\* TaggedFile::save_to: every tag of `file` is saved into `bytes` in turn,
\* up to the first one that fails; the result is what `bytes` holds then.
save_to(file, bytes) ==
    write_tags(file.tags,
               IF first_unsupported(file, bytes) = 0 THEN Len(file.tags)
               ELSE first_unsupported(file, bytes) - 1,
               bytes)

\* Whether TaggedFile::save_to wrote every tag.
save_to_ok(file, bytes) == first_unsupported(file, bytes) = 0

----------------------------------------------------------------------------
(* Inputs: the buffers a caller may pass, the paths of the file system.    *)

LossyProps == Props(Some(44100), None, Some(128), 10000)

TitleT == [NoItems EXCEPT !["TrackTitle"] = Some("t")]

TitleU == [NoItems EXCEPT !["TrackTitle"] = Some("u")]

Image(ft, tags, props, size) ==
    <<HdrChunk(ft)>> \o TagChunks(tags) \o <<AudioChunk(props, size)>>

EmptyBytes == <<>>

JunkBytes == << <<"junk">> >>

UntaggedBytes == Image("Mpeg", <<>>, LossyProps, 1000)

\* An MPEG file whose primary (ID3v2) tag is not the first of its tags.
MpegV1V2 == Image("Mpeg", <<Tag("Id3v1", TitleT), Tag("Id3v2", TitleU)>>,
                  LossyProps, 1000)

\* An MPEG file with no primary tag: selection falls back to the first tag.
MpegV1 == Image("Mpeg", <<Tag("Id3v1", TitleT)>>, LossyProps, 1000)

\* A lossless file whose only tag is not of its primary (Vorbis) type.
HiResProps ==
    [Props(Some(96000), Some(24), None, 2000) EXCEPT !.channels = None]

FlacV2 == Image("Flac", <<Tag("Id3v2", TitleT)>>, HiResProps, 100000)

Buffers == {EmptyBytes, JunkBytes, UntaggedBytes, MpegV1V2, MpegV1, FlacV2}

PathA == "a.mp3"

PathB == "b.mp3"

PathOut == "out.mp3"

PathRo == "ro/out.mp3"

Paths == {PathA, PathB, PathOut, PathRo}

\* Paths that cannot be created or written (a read-only directory).
Unwritable == {PathRo}

InitFs ==
    [p \in Paths |->
        CASE p = PathA -> Some(MpegV1V2)
          [] p = PathB -> Some(UntaggedBytes)
          [] OTHER -> None]

\* The last call made on the session and what it returned.
Call(name, arg) == [name |-> name, arg |-> arg]

\* File-system effects a call attempts, in order.
FsOp(kind, from, to, ok) == [kind |-> kind, from |-> from, to |-> to, ok |-> ok]

----------------------------------------------------------------------------
(* MusicTagger *)

\* Calls explored on one MusicTagger object.
MaxCalls == 4

\* Every call counts against the explored number of calls.
Tick == calls < MaxCalls /\ calls' = calls + 1

MetaFileInner(buffer, file, path) ==
    [buffer |-> buffer, file |-> file, path |-> path]

\* inner(): the loaded state, or the Disposed error.
inner_ok == is_some(inner)

\* MusicTagger::new
Init ==
    /\ wasm \in BOOLEAN
    /\ inner = None
    /\ fs = InitFs
    /\ op = Call("new", <<>>)
    /\ result = Ok(<<>>)
    /\ fsLog = <<>>
    /\ tagLog = <<>>
    /\ calls = 0

\* The session load_buffer stores: the caller's bytes, no path.
session_of_buffer(bytes, file) == MetaFileInner(bytes, file, None)

\* Faulty variant: load_path also keeps the bytes of the file it read.
session_of_path_keeping_bytes(file, path) ==
    MetaFileInner(unwrap(fs[path]), file, Some(path))

\* Faulty variant: load_path does not remember the path it read.
session_of_path_forgetting_path(file, path) == MetaFileInner(<<>>, file, None)

\* The session load_path stores: an empty buffer, the path.
session_of_path(file, path) == MetaFileInner(<<>>, file, Some(path))

\* Faulty variant: the loads skip the tag check.
has_tag_unchecked(file) == TRUE

\* The tag check shared by both loads.
has_tag(file) == ~(primary_tag(file) = 0 /\ first_tag(file) = 0)

load_buffer(bytes) ==
    LET parsed == probe_read(bytes)
    IN /\ Tick
       /\ tagLog' = <<>>
       /\ op' = Call("load_buffer", bytes)
       /\ IF ~parsed.ok
          THEN inner' = None /\ result' = Err(parsed.err)
          ELSE IF ~has_tag(parsed.val)
          THEN inner' = None /\ result' = Err(NoTagPresentAtLoad)
          ELSE /\ inner' = Some(session_of_buffer(bytes, parsed.val))
               /\ result' = Ok(<<>>)
       /\ fsLog' = <<>>
       /\ UNCHANGED <<wasm, fs>>

\* Faulty variant: the session is dropped before the build is looked at.
load_path_dispose_first(path) ==
    /\ Tick
    /\ tagLog' = <<>>
    /\ op' = Call("load_path", path)
    /\ IF wasm
       THEN inner' = None /\ result' = Err(UnsupportedEnvironment)
       ELSE IF is_none(fs[path])
       THEN inner' = None /\ result' = Err(InvalidInput)
       ELSE LET parsed == probe_read(unwrap(fs[path]))
            IN IF ~parsed.ok
               THEN inner' = None /\ result' = Err(parsed.err)
               ELSE IF ~has_tag(parsed.val)
               THEN inner' = None /\ result' = Err(NoTagPresentAtLoad)
               ELSE /\ inner' = Some(session_of_path(parsed.val, path))
                    /\ result' = Ok(<<>>)
    /\ fsLog' = <<>>
    /\ UNCHANGED <<wasm, fs>>

load_path(path) ==
    /\ Tick
    /\ tagLog' = <<>>
    /\ op' = Call("load_path", path)
    /\ IF wasm
       THEN inner' = inner /\ result' = Err(UnsupportedEnvironment)
       ELSE IF is_none(fs[path])
       THEN inner' = None /\ result' = Err(InvalidInput)
       ELSE LET parsed == probe_read(unwrap(fs[path]))
            IN IF ~parsed.ok
               THEN inner' = None /\ result' = Err(parsed.err)
               ELSE IF ~has_tag(parsed.val)
               THEN inner' = None /\ result' = Err(NoTagPresentAtLoad)
               ELSE /\ inner' = Some(session_of_path(parsed.val, path))
                    /\ result' = Ok(<<>>)
    /\ fsLog' = <<>>
    /\ UNCHANGED <<wasm, fs>>

\* Faulty variant: dispose forgets to drop the session.
dispose_keeps_session ==
    /\ Tick
    /\ tagLog' = <<>>
    /\ op' = Call("dispose", <<>>)
    /\ inner' = inner
    /\ result' = Ok(<<>>)
    /\ fsLog' = <<>>
    /\ UNCHANGED <<wasm, fs>>

dispose ==
    /\ Tick
    /\ tagLog' = <<>>
    /\ op' = Call("dispose", <<>>)
    /\ inner' = IF is_some(inner) THEN None ELSE inner
    /\ result' = Ok(<<>>)
    /\ fsLog' = <<>>
    /\ UNCHANGED <<wasm, fs>>

is_disposed ==
    /\ Tick
    /\ tagLog' = <<>>
    /\ op' = Call("is_disposed", <<>>)
    /\ result' = Ok(<<is_none(inner)>>)
    /\ fsLog' = <<>>
    /\ UNCHANGED <<wasm, inner, fs>>

\* Vec<u8>::is_empty on the session's buffer.
buffer_is_empty(st) == Len(st.buffer) = 0

\* std::fs::write(path, bytes)
fs_write_ok(path) == path \notin Unwritable

\* std::fs::copy(from, to)
fs_copy_ok(f, from, to) == is_some(f[from]) /\ to \notin Unwritable

\* TaggedFile::save_to_path(path): the file at path must open read/write
\* and parse; lofty_ok is the engine meeting no error of its own while it
\* writes (an unsupported tag type is decided by save_to_ok).
save_to_path_ok(f, path, lofty_ok) ==
    /\ lofty_ok
    /\ path \notin Unwritable
    /\ is_some(f[path])
    /\ probe_read(unwrap(f[path])).ok

\* Faulty variant: a failed serialization drops the session.
save_buffer_dropping_session(st, path, lofty_ok) ==
    IF ~lofty_ok
    THEN /\ inner' = None
         /\ result' = Err(WriteFailed("Failed to save buffer"))
         /\ fs' = fs /\ fsLog' = <<>>
    ELSE LET saved == save_to(st.file, st.buffer)
         IN /\ inner' = Some([st EXCEPT !.buffer = saved])
            /\ IF ~save_to_ok(st.file, st.buffer)
               THEN /\ result' = Err(WriteFailed("Failed to save buffer"))
                    /\ fs' = fs /\ fsLog' = <<>>
               ELSE IF is_none(path)
               THEN result' = Ok(<<>>) /\ fs' = fs /\ fsLog' = <<>>
               ELSE IF wasm
               THEN /\ result' = Err(UnsupportedEnvironment)
                    /\ fs' = fs /\ fsLog' = <<>>
               ELSE IF ~fs_write_ok(unwrap(path))
               THEN /\ result' = Err(WriteFailed("Failed writing to custom path"))
                    /\ fs' = fs
                    /\ fsLog' = <<FsOp("write", None, unwrap(path), FALSE)>>
               ELSE /\ result' = Ok(<<>>)
                    /\ fs' = [fs EXCEPT ![unwrap(path)] = Some(saved)]
                    /\ fsLog' = <<FsOp("write", None, unwrap(path), TRUE)>>

\* save, buffer branch (the session holds a non-empty buffer).
save_buffer(st, path, lofty_ok) ==
    IF ~lofty_ok
    THEN /\ inner' = inner
         /\ result' = Err(WriteFailed("Failed to save buffer"))
         /\ fs' = fs /\ fsLog' = <<>>
    ELSE LET saved == save_to(st.file, st.buffer)
         IN /\ inner' = Some([st EXCEPT !.buffer = saved])
            /\ IF ~save_to_ok(st.file, st.buffer)
               THEN /\ result' = Err(WriteFailed("Failed to save buffer"))
                    /\ fs' = fs /\ fsLog' = <<>>
               ELSE IF is_none(path)
               THEN result' = Ok(<<>>) /\ fs' = fs /\ fsLog' = <<>>
               ELSE IF wasm
               THEN /\ result' = Err(UnsupportedEnvironment)
                    /\ fs' = fs /\ fsLog' = <<>>
               ELSE IF ~fs_write_ok(unwrap(path))
               THEN /\ result' = Err(WriteFailed("Failed writing to custom path"))
                    /\ fs' = fs
                    /\ fsLog' = <<FsOp("write", None, unwrap(path), FALSE)>>
               ELSE /\ result' = Ok(<<>>)
                    /\ fs' = [fs EXCEPT ![unwrap(path)] = Some(saved)]
                    /\ fsLog' = <<FsOp("write", None, unwrap(path), TRUE)>>

\* Faulty variant: the copy is made for every custom path, the load path included.
needs_copy_any_custom(st, path) == is_some(path) /\ is_some(st.path)

\* The copy of the path branch: a custom path that differs from the
\* session's own path.
needs_copy(st, path) ==
    /\ is_some(path)
    /\ is_some(st.path)
    /\ unwrap(st.path) # unwrap(path)

\* Faulty variant: a custom target becomes the session's stored path.
save_path_adopting_target(st, path, lofty_ok) ==
    LET has_custom_path == is_some(path)
        target_path == IF is_some(path) THEN path ELSE st.path
    IN /\ inner' = Some([st EXCEPT !.path = target_path])
       /\ IF has_custom_path /\ wasm
          THEN /\ result' = Err(UnsupportedEnvironment)
               /\ fs' = fs /\ fsLog' = <<>>
          ELSE IF is_none(target_path)
          THEN /\ result' = Err(NoTargetAvailable)
               /\ fs' = fs /\ fsLog' = <<>>
          ELSE LET target == unwrap(target_path)
                   copies == needs_copy(st, path)
                   copied == IF copies /\ fs_copy_ok(fs, unwrap(st.path), target)
                             THEN [fs EXCEPT ![target] = fs[unwrap(st.path)]]
                             ELSE fs
                   copyLog == IF copies
                              THEN <<FsOp("copy", st.path, target,
                                          fs_copy_ok(fs, unwrap(st.path), target))>>
                              ELSE <<>>
               IN IF copies /\ ~fs_copy_ok(fs, unwrap(st.path), target)
                  THEN /\ result' = Err(WriteFailed("Failed copying"))
                       /\ fs' = fs /\ fsLog' = copyLog
                  ELSE IF ~save_to_path_ok(copied, target, lofty_ok)
                  THEN /\ result' = Err(WriteFailed("Failed saving to file"))
                       /\ fs' = copied
                       /\ fsLog' = copyLog \o
                              <<FsOp("save_to_path", None, target, FALSE)>>
                  ELSE IF ~save_to_ok(st.file, unwrap(copied[target]))
                  THEN /\ result' = Err(WriteFailed("Failed saving to file"))
                       /\ fs' = [copied EXCEPT ![target] =
                                    Some(save_to(st.file, unwrap(copied[target])))]
                       /\ fsLog' = copyLog \o
                              <<FsOp("save_to_path", None, target, FALSE)>>
                  ELSE /\ result' = Ok(<<>>)
                       /\ fs' = [copied EXCEPT ![target] =
                                    Some(save_to(st.file, unwrap(copied[target])))]
                       /\ fsLog' = copyLog \o
                              <<FsOp("save_to_path", None, target, TRUE)>>

\* save, path branch (the session's buffer is empty).
save_path(st, path, lofty_ok) ==
    LET has_custom_path == is_some(path)
        target_path == IF is_some(path) THEN path ELSE st.path
    IN /\ inner' = inner
       /\ IF has_custom_path /\ wasm
          THEN /\ result' = Err(UnsupportedEnvironment)
               /\ fs' = fs /\ fsLog' = <<>>
          ELSE IF is_none(target_path)
          THEN /\ result' = Err(NoTargetAvailable)
               /\ fs' = fs /\ fsLog' = <<>>
          ELSE LET target == unwrap(target_path)
                   copies == needs_copy(st, path)
                   copied == IF copies /\ fs_copy_ok(fs, unwrap(st.path), target)
                             THEN [fs EXCEPT ![target] = fs[unwrap(st.path)]]
                             ELSE fs
                   copyLog == IF copies
                              THEN <<FsOp("copy", st.path, target,
                                          fs_copy_ok(fs, unwrap(st.path), target))>>
                              ELSE <<>>
               IN IF copies /\ ~fs_copy_ok(fs, unwrap(st.path), target)
                  THEN /\ result' = Err(WriteFailed("Failed copying"))
                       /\ fs' = fs /\ fsLog' = copyLog
                  ELSE IF ~save_to_path_ok(copied, target, lofty_ok)
                  THEN /\ result' = Err(WriteFailed("Failed saving to file"))
                       /\ fs' = copied
                       /\ fsLog' = copyLog \o
                              <<FsOp("save_to_path", None, target, FALSE)>>
                  ELSE IF ~save_to_ok(st.file, unwrap(copied[target]))
                  THEN /\ result' = Err(WriteFailed("Failed saving to file"))
                       /\ fs' = [copied EXCEPT ![target] =
                                    Some(save_to(st.file, unwrap(copied[target])))]
                       /\ fsLog' = copyLog \o
                              <<FsOp("save_to_path", None, target, FALSE)>>
                  ELSE /\ result' = Ok(<<>>)
                       /\ fs' = [copied EXCEPT ![target] =
                                    Some(save_to(st.file, unwrap(copied[target])))]
                       /\ fsLog' = copyLog \o
                              <<FsOp("save_to_path", None, target, TRUE)>>

save(path, lofty_ok) ==
    /\ Tick
    /\ tagLog' = <<>>
    /\ op' = Call("save", path)
    /\ IF ~inner_ok
       THEN /\ result' = Err(Disposed)
            /\ UNCHANGED <<inner, fs>> /\ fsLog' = <<>>
       ELSE IF ~buffer_is_empty(unwrap(inner))
       THEN save_buffer(unwrap(inner), path, lofty_ok)
       ELSE save_path(unwrap(inner), path, lofty_ok)
    /\ UNCHANGED wasm

\* Faulty variant: buffer() answers an empty buffer on an unloaded session.
buffer_of_unloaded ==
    /\ Tick
    /\ tagLog' = <<>>
    /\ op' = Call("buffer", <<>>)
    /\ result' = IF ~inner_ok THEN Ok(<<EmptyBytes>>)
                 ELSE Ok(<<unwrap(inner).buffer>>)
    /\ fsLog' = <<>>
    /\ UNCHANGED <<wasm, inner, fs>>

buffer ==
    /\ Tick
    /\ tagLog' = <<>>
    /\ op' = Call("buffer", <<>>)
    /\ result' = IF ~inner_ok THEN Err(Disposed)
                 ELSE Ok(<<unwrap(inner).buffer>>)
    /\ fsLog' = <<>>
    /\ UNCHANGED <<wasm, inner, fs>>

----------------------------------------------------------------------------
(* Replay-gain text (src/src/utils.rs).  A text is a sequence of one-       *)
(* character strings over digits, "+", "-", ".", " ", "d", "B", "b".  An    *)
(* f64 argument is a binary fraction: a gain is counted in sixteenths, a    *)
(* peak in 256ths, so that its decimal expansion is exact.  A parsed f64    *)
(* is an odd mantissa times a power of two, found by exact arithmetic.      *)

DigitChars == <<"0", "1", "2", "3", "4", "5", "6", "7", "8", "9">>

IsDigit(c) == \E d \in 1..10 : DigitChars[d] = c

DigitValue(c) == (CHOOSE d \in 1..10 : DigitChars[d] = c) - 1

Abs(n) == IF n < 0 THEN -n ELSE n

RECURSIVE Pow10(_)
Pow10(n) == IF n = 0 THEN 1 ELSE 10 * Pow10(n - 1)

\* The decimal digits of a natural number, at least one.
RECURSIVE nat_text(_)
nat_text(n) ==
    IF n < 10 THEN <<DigitChars[n + 1]>>
    ELSE nat_text(n \div 10) \o <<DigitChars[(n % 10) + 1]>>

\* Exactly `width` digits of n, zero-padded on the left.
RECURSIVE padded_text(_, _)
padded_text(n, width) ==
    IF width = 0 THEN <<>>
    ELSE padded_text(n \div 10, width - 1) \o <<DigitChars[(n % 10) + 1]>>

\* n / unit rounded to the nearest integer, a tie to the even one: the
\* rounding of {:.N} on the exact value.
round_half_even(n, unit) ==
    LET q == n \div unit
        r == n % unit
    IN IF 2 * r > unit \/ (2 * r = unit /\ q % 2 = 1) THEN q + 1 ELSE q

\* The digits of {:.decimals} for the magnitude mag / scale.
fixed_text(mag, scale, decimals) ==
    LET n == (mag \div scale) * Pow10(decimals)
             + round_half_even((mag % scale) * Pow10(decimals), scale)
    IN nat_text(n \div Pow10(decimals)) \o <<".">>
       \o padded_text(n % Pow10(decimals), decimals)

\* Faulty variant: the sign is printed for negative values only.
format_replaygain_gain_plain(value) ==
    (IF value < 0 THEN <<"-">> ELSE <<>>)
    \o fixed_text(Abs(value), 16, 2) \o <<" ", "d", "B">>

\* format!("{:+.2} dB", value), value in sixteenths.
format_replaygain_gain(value) ==
    (IF value < 0 THEN <<"-">> ELSE <<"+">>)
    \o fixed_text(Abs(value), 16, 2) \o <<" ", "d", "B">>

\* format!("{:.6}", value), value in 256ths.
format_replaygain_peak(value) ==
    (IF value < 0 THEN <<"-">> ELSE <<>>) \o fixed_text(Abs(value), 256, 6)

\* char::is_whitespace: the code points with the White_Space property.  A
\* text is a sequence of characters; a character with no escape in a string
\* literal is written by its code point.
WhiteSpace ==
    {" ", "\t", "\n", "\r", "\f", "U+000B", "U+0085", "U+00A0", "U+1680",
     "U+2000", "U+2001", "U+2002", "U+2003", "U+2004", "U+2005", "U+2006",
     "U+2007", "U+2008", "U+2009", "U+200A", "U+2028", "U+2029", "U+202F",
     "U+205F", "U+3000"}

\* str::trim: whitespace off both ends.
RECURSIVE trim_start(_)
trim_start(text) ==
    IF Len(text) > 0 /\ Head(text) \in WhiteSpace
    THEN trim_start(Tail(text)) ELSE text

RECURSIVE trim_end(_)
trim_end(text) ==
    IF Len(text) > 0 /\ text[Len(text)] \in WhiteSpace
    THEN trim_end(SubSeq(text, 1, Len(text) - 1)) ELSE text

trim(text) == trim_end(trim_start(text))

\* str::trim_end_matches(pat): the suffix removed as often as it matches.
RECURSIVE trim_end_matches(_, _)
trim_end_matches(text, pat) ==
    IF /\ Len(text) >= Len(pat)
       /\ SubSeq(text, Len(text) - Len(pat) + 1, Len(text)) = pat
    THEN trim_end_matches(SubSeq(text, 1, Len(text) - Len(pat)), pat)
    ELSE text

\* The value of a digit sequence read as a natural number.
RECURSIVE digits_value(_)
digits_value(ds) ==
    IF ds = <<>> THEN 0
    ELSE 10 * digits_value(SubSeq(ds, 1, Len(ds) - 1)) + DigitValue(ds[Len(ds)])

\* A digit text without its leading zeros, one digit kept.
RECURSIVE strip_zeros(_)
strip_zeros(ds) ==
    IF Len(ds) > 1 /\ Head(ds) = "0" THEN strip_zeros(Tail(ds)) ELSE ds

RECURSIVE Pow2(_)
Pow2(n) == IF n = 0 THEN 1 ELSE 2 * Pow2(n - 1)

RECURSIVE floor_log2(_)
floor_log2(n) == IF n < 2 THEN 0 ELSE 1 + floor_log2(n \div 2)

\* A natural number of any size is the sequence of its base-2^15 digits
\* (limbs), the least significant first and the last one not zero; <<>> is
\* zero.  Carries are found without recursion over the limbs.
limb(a, i) == IF i >= 1 /\ i <= Len(a) THEN a[i] ELSE 0

\* (s holds the limbs as values, each computed once)
big_trim(a) ==
    IF a = <<>> THEN <<>>
    ELSE LET s == a \o <<>>
         IN SubSeq(s, 1, CHOOSE i \in 0..Len(s) :
                          /\ i = 0 \/ s[i] # 0
                          /\ \A j \in (i + 1)..Len(s) : s[j] = 0)

\* The number of binary digits of a.
big_bits(a) ==
    IF a = <<>> THEN 0 ELSE 15 * (Len(a) - 1) + floor_log2(a[Len(a)]) + 1

\* The carry into limb i of a + b: the nearest limb below i that does not
\* just pass a carry on produces one.
big_carry(a, b, i) ==
    \E d \in 1..(i - 1) :
        /\ limb(a, i - d) + limb(b, i - d) >= 32768
        /\ \A e \in 1..(d - 1) : limb(a, i - e) + limb(b, i - e) = 32767

big_add(a, b) ==
    IF a = <<>> THEN b
    ELSE IF b = <<>> THEN a
    ELSE big_trim(
             [i \in 1..((IF Len(a) > Len(b) THEN Len(a) ELSE Len(b)) + 1) |->
                 (limb(a, i) + limb(b, i)
                  + (IF big_carry(a, b, i) THEN 1 ELSE 0)) % 32768])

\* a / 2^n rounded down
big_shr(a, n) ==
    LET w == n \div 15
        p == Pow2(n % 15)
        r == Pow2(15 - (n % 15))
    IN IF a = <<>> \/ n = 0 THEN a
       ELSE big_trim(
                [i \in 1..(Len(a) - w) |->
                    limb(a, i + w) \div p + (limb(a, i + w + 1) % p) * r])

\* a * m, for m < 2^15: the low limbs of the products plus their high limbs
\* one place up.
big_mul_small(a, m) ==
    IF a = <<>> \/ m = 0 THEN <<>>
    ELSE big_add(big_trim([i \in 1..Len(a) |-> (a[i] * m) % 32768]),
                 big_trim(<<0>> \o [i \in 1..Len(a) |-> (a[i] * m) \div 32768]))

\* The limbs lo..hi of a divided by m, with r the remainder that comes down
\* from the limbs above: <<the limbs of the quotient, the remainder>>.
RECURSIVE big_div_range(_, _, _, _, _)
big_div_range(a, m, lo, hi, r) ==
    LET up == big_div_range(a, m, (lo + hi) \div 2 + 1, hi, r)
        dn == big_div_range(a, m, lo, (lo + hi) \div 2, up[2])
    IN IF lo > hi \/ r < 0 THEN << <<>>, r >>
       ELSE IF lo = hi
       THEN << <<(r * 32768 + a[lo]) \div m>>, (r * 32768 + a[lo]) % m >>
       ELSE <<dn[1] \o up[1], dn[2]>>

big_trim_quot(qr) == <<big_trim(qr[1]), qr[2]>>

\* <<a / m rounded down, the remainder>>, for 0 < m <= 32768.
big_div_small(a, m) == big_trim_quot(big_div_range(a, m, 1, Len(a), 0))

RECURSIVE small_pow(_, _)
small_pow(b, n) == IF n = 0 THEN 1 ELSE b * small_pow(b, n - 1)

\* The powers of 10 up to the 4th and of 5 up to the 6th are below 2^15.
small_step(b) == IF b = 10 THEN 4 ELSE 6

\* The first part of n steps: half of them, in whole small steps.
first_steps(b, n) == small_step(b) * ((n \div 2 + small_step(b) - 1) \div small_step(b))

\* a * b^n, for b 5 or 10.
RECURSIVE big_scale(_, _, _)
big_scale(a, b, n) ==
    IF a = <<>> \/ n = 0 THEN a
    ELSE IF n <= small_step(b) THEN big_mul_small(a, small_pow(b, n))
    ELSE big_scale(big_scale(a, b, first_steps(b, n)), b, n - first_steps(b, n))

\* One division of a rounded quotient: qr is <<quotient, remainder>>.
big_cut(exact, qr) == <<qr[1], exact /\ qr[2] = 0>>

\* <<q / b^n rounded down, whether nothing was cut off>>, for qe the pair
\* <<q, whether nothing was cut off before>> and b 5 or 10.
RECURSIVE big_unscale(_, _, _)
big_unscale(qe, b, n) ==
    IF qe[1] = <<>> \/ n = 0 THEN qe
    ELSE IF n <= small_step(b)
    THEN big_cut(qe[2], big_div_small(qe[1], small_pow(b, n)))
    ELSE big_unscale(big_unscale(qe, b, first_steps(b, n)), b,
                     n - first_steps(b, n))

\* The number ds writes in decimal.
RECURSIVE big_of_digits(_)
big_of_digits(ds) ==
    IF Len(ds) <= 4 THEN big_trim(<<digits_value(ds)>>)
    ELSE big_add(big_scale(big_of_digits(SubSeq(ds, 1, Len(ds) \div 2)), 10,
                           Len(ds) - Len(ds) \div 2),
                 big_of_digits(SubSeq(ds, Len(ds) \div 2 + 1, Len(ds))))

\* The decimal digits of a, without leading zeros.
RECURSIVE big_text(_), big_text_of(_)
big_text(a) ==
    IF Len(a) <= 1 THEN nat_text(limb(a, 1))
    ELSE big_text_of(big_div_small(a, 10000))

big_text_of(qr) == big_text(qr[1]) \o padded_text(qr[2], 4)

\* Whether the n lowest binary digits of a are all zero.
big_low_zero(a, n) ==
    /\ \A i \in 1..(n \div 15) : limb(a, i) = 0
    /\ limb(a, n \div 15 + 1) % Pow2(n % 15) = 0

Finite(neg, mant, exp) ==
    [kind |-> "finite", neg |-> neg, mant |-> mant, exp |-> exp]

Infinite(neg) == [kind |-> "inf", neg |-> neg, mant |-> <<"0">>, exp |-> 0]

NaN == [kind |-> "nan", neg |-> FALSE, mant |-> <<"0">>, exp |-> 0]

\* The number of times 2 divides n, for 0 < n.
RECURSIVE twos(_)
twos(n) == IF n % 2 = 1 THEN 0 ELSE 1 + twos(n \div 2)

\* The number of times 2 divides mant, for mant not zero.
big_twos(mant) ==
    LET low == CHOOSE i \in 1..Len(mant) :
                   mant[i] # 0 /\ \A j \in 1..(i - 1) : mant[j] = 0
    IN 15 * (low - 1) + twos(mant[low])

f64_shifted(neg, mant, exp, zeros) ==
    Finite(neg, big_text(big_shr(mant, zeros)), exp + zeros)

\* mant * 2^exp with mant made odd; infinite past the largest f64.
f64_odd(neg, mant, exp) ==
    IF mant = <<>> THEN Finite(neg, <<"0">>, 0)
    ELSE IF exp > 971 \/ (exp = 971 /\ big_bits(mant) = 54) THEN Infinite(neg)
    ELSE f64_shifted(neg, mant, exp, big_twos(mant))

\* top is the kept binary digits and one more, rest whether anything not
\* zero lies below them: half rounds to even.
f64_round_up(neg, top, rest, exp) ==
    f64_odd(neg,
            big_add(big_shr(top, 1),
                    IF limb(top, 1) % 2 = 1 /\ (rest \/ limb(top, 1) % 4 = 3)
                    THEN <<1>> ELSE <<>>),
            exp)

f64_round_at(neg, qe, exp, drop) ==
    f64_round_up(neg, big_shr(qe[1], drop - 1),
                 ~qe[2] \/ ~big_low_zero(qe[1], drop - 1), exp + drop)

\* The binary digits to drop from a quotient of most + 53 digits: those
\* past 53, and in the subnormal range those below 2^-1074.
f64_drop(most, exp) == IF exp + most < -1074 THEN -1074 - exp ELSE most

\* The f64 nearest to q * 2^exp (and the rest, if not exact), for qe the
\* pair <<q, exact>> and q of more than 54 binary digits.
f64_round(neg, qe, exp) ==
    f64_round_at(neg, qe, exp, f64_drop(big_bits(qe[1]) - 53, exp))

\* Zero limbs put under a, which multiplies a by 2^(15 * w).
big_shl_limbs(a, w) == [i \in 1..w |-> 0] \o a

\* The limbs put under the digits before a division by 5^down, so that the
\* quotient has more than 54 binary digits (5^down is below 2^(3 * down)).
f64_room(down) == (3 * down + 56) \div 15 + 1

\* The f64 nearest to digits * 10^exp10: the digits times 5^exp10, or shifted
\* up and divided by 5^-exp10, then rounded at 53 binary digits.
f64_of_decimal(neg, digits, exp10) ==
    LET order == Len(strip_zeros(digits)) + exp10
        up == IF exp10 > 0 THEN exp10 ELSE 0
        down == IF exp10 < 0 THEN -exp10 ELSE 0
    IN IF \A i \in 1..Len(digits) : digits[i] = "0"
       THEN Finite(neg, <<"0">>, 0)
       ELSE IF order >= 310 THEN Infinite(neg)
       ELSE IF order <= -324 THEN Finite(neg, <<"0">>, 0)
       ELSE f64_round(
                neg,
                big_unscale(<<big_shl_limbs(
                                  big_scale(big_of_digits(digits), 5, up),
                                  f64_room(down)),
                              TRUE>>,
                            5, down),
                exp10 - 15 * f64_room(down))

\* u8::to_ascii_lowercase on the letters of the special values.
ascii_lower(c) ==
    CASE c = "I" -> "i" [] c = "N" -> "n" [] c = "F" -> "f"
      [] c = "T" -> "t" [] c = "Y" -> "y" [] c = "A" -> "a"
      [] OTHER -> c

\* str::parse::<f64>: an optional sign, then inf, infinity or nan in any
\* case, or digits with at most one point and at least one digit, followed
\* by an optional exponent e or E with an optional sign and at least one
\* digit.  None for every other text, the empty one included.
parse_f64(text) ==
    LET signed == Len(text) > 0 /\ text[1] \in {"+", "-"}
        neg == signed /\ text[1] = "-"
        body == IF signed THEN Tail(text) ELSE text
        word == [i \in 1..Len(body) |-> ascii_lower(body[i])]
        marks == {i \in 1..Len(body) : body[i] \in {"e", "E"}}
        mark == IF marks = {} THEN Len(body) + 1
                ELSE CHOOSE i \in marks : \A j \in marks : i <= j
        number == SubSeq(body, 1, mark - 1)
        tail == SubSeq(body, mark + 1, Len(body))
        esigned == Len(tail) > 0 /\ tail[1] \in {"+", "-"}
        edigits == IF esigned THEN Tail(tail) ELSE tail
        points == {i \in 1..Len(number) : number[i] = "."}
        whole == IF points = {} THEN number
                 ELSE SubSeq(number, 1, (CHOOSE i \in points : TRUE) - 1)
        frac == IF points = {} THEN <<>>
                ELSE SubSeq(number, (CHOOSE i \in points : TRUE) + 1,
                            Len(number))
        \* an exponent of more than six digits decides the value by itself
        emag == IF Len(strip_zeros(edigits)) > 6 THEN 1000000
                ELSE digits_value(edigits)
        exp10 == IF marks = {} THEN 0
                 ELSE IF esigned /\ tail[1] = "-" THEN -emag
                 ELSE emag
    IN IF word \in {<<"i", "n", "f">>,
                    <<"i", "n", "f", "i", "n", "i", "t", "y">>}
       THEN Some(Infinite(neg))
       ELSE IF word = <<"n", "a", "n">> THEN Some(NaN)
       ELSE IF /\ Cardinality(points) <= 1
               /\ \A i \in 1..Len(number) : IsDigit(number[i]) \/ number[i] = "."
               /\ Len(whole) + Len(frac) >= 1
               /\ marks # {} =>
                      /\ Len(edigits) >= 1
                      /\ \A i \in 1..Len(edigits) : IsDigit(edigits[i])
       THEN Some(f64_of_decimal(neg, whole \o frac, exp10 - Len(frac)))
       ELSE None

parse_replaygain_value(value) ==
    parse_f64(trim(trim_end_matches(trim_end_matches(trim(value),
                                                     <<"d", "B">>),
                                    <<"d", "b">>)))

----------------------------------------------------------------------------
(* Pictures as the caller sees them (src/src/meta_picture.rs) *)

\* PictureType::as_ape_key: None for a type with no APE key.
as_ape_key(pic_type) ==
    CASE pic_type = "CoverFront" -> Some("Cover Art (Front)")
      [] pic_type = "Other" -> Some("Cover Art (Other)")
      [] OTHER -> None

\* PictureType::from_ape_key: Undefined for a key it does not know.
from_ape_key(key) ==
    CASE key = "Cover Art (Front)" -> "CoverFront"
      [] key = "Cover Art (Other)" -> "Other"
      [] OTHER -> "Undefined"

\* MimeType::from_str and MimeType::as_str.
mime_from_str(text) ==
    IF text = "image/png" THEN <<"Png">> ELSE <<"Unknown", text>>

mime_as_str(mime) == IF mime = <<"Png">> THEN "image/png" ELSE mime[2]

\* The lofty Picture.
Picture(pic_type, mime_type, description, data) ==
    [pic_type |-> pic_type, mime_type |-> mime_type,
     description |-> description, data |-> data]

MetaPicture(cover_type, mime_type, description, data) ==
    [cover_type |-> cover_type, mime_type |-> mime_type,
     description |-> description, data |-> data]

from_lofty_picture(pic) ==
    MetaPicture(IF is_some(as_ape_key(pic.pic_type))
                THEN unwrap(as_ape_key(pic.pic_type)) ELSE "Unknown",
                IF is_some(pic.mime_type)
                THEN Some(mime_as_str(unwrap(pic.mime_type))) ELSE None,
                pic.description,
                pic.data)

to_lofty_picture(pic) ==
    Picture(from_ape_key(pic.cover_type),
            IF is_some(pic.mime_type)
            THEN Some(mime_from_str(unwrap(pic.mime_type))) ELSE None,
            pic.description,
            pic.data)

\* Faulty variant: an empty slice converts to an empty list.
from_lofty_picture_slice_never_none(pics) ==
    Some([i \in 1..Len(pics) |-> from_lofty_picture(pics[i])])

\* None for an empty slice, else every picture converted, in order.
from_lofty_picture_slice(pics) ==
    IF Len(pics) = 0 THEN None
    ELSE Some([i \in 1..Len(pics) |-> from_lofty_picture(pics[i])])

----------------------------------------------------------------------------
(* Tag selection and the field accessors *)

\* try_tag: file.primary_tag().or_else(|| file.first_tag())
try_tag_index(file) ==
    IF primary_tag(file) # 0 THEN primary_tag(file) ELSE first_tag(file)

\* try_tag_mut: primary_tag_mut(), else first_tag_mut(), else no tag.
try_tag_mut_index(file) ==
    IF primary_tag(file) # 0 THEN primary_tag(file)
    ELSE IF first_tag(file) # 0 THEN first_tag(file)
    ELSE 0

get_title(tag) == get_string(tag, "TrackTitle")

get_composer(tag) == get_string(tag, "Composer")

\* a <= b for digit texts of one length.
RECURSIVE digits_le(_, _)
digits_le(a, b) ==
    IF a = <<>> THEN TRUE
    ELSE IF Head(a) # Head(b) THEN DigitValue(Head(a)) < DigitValue(Head(b))
    ELSE digits_le(Tail(a), Tail(b))

\* The number written ds is at most the number written max, neither with
\* leading zeros.
at_most(ds, max) ==
    Len(ds) < Len(max) \/ (Len(ds) = Len(max) /\ digits_le(ds, max))

U32_MAX == <<"4", "2", "9", "4", "9", "6", "7", "2", "9", "5">>

U16_MAX == <<"6", "5", "5", "3", "5">>

\* str::parse::<u32>: an optional +, then digits, at least one, whose value
\* is at most u32::MAX; None for every other text.  The u32 is given by its
\* decimal digits without leading zeros (<<"1", "2">> is 12), since the
\* integers of the model end at 2^31 - 1.
parse_u32(text) ==
    LET body == IF Len(text) > 0 /\ text[1] = "+" THEN Tail(text) ELSE text
    IN IF /\ Len(body) > 0
          /\ \A i \in 1..Len(body) : IsDigit(body[i])
          /\ at_most(strip_zeros(body), U32_MAX)
       THEN Some(strip_zeros(body))
       ELSE None

\* Tag::track, disk, track_total and disk_total: the stored text read as a
\* u32, None when it is not one.
get_u32_from_string(tag, key) ==
    IF is_none(get_string(tag, key)) THEN None
    ELSE parse_u32(unwrap(get_string(tag, key)))

\* tag.date().map(|d| d.year): the year of the stored date, a u16; None
\* when the text is no year a u16 holds.
get_year(tag) ==
    LET text == get_string(tag, "RecordingDate")
    IN IF /\ is_some(text) /\ Len(unwrap(text)) > 0
          /\ \A i \in 1..Len(unwrap(text)) : IsDigit(unwrap(text)[i])
          /\ at_most(strip_zeros(unwrap(text)), U16_MAX)
       THEN Some(digits_value(strip_zeros(unwrap(text))))
       ELSE None

\* rating: the first stored star rating as 1..5.
get_rating(tag) ==
    LET r == first_rating(tag)
    IN IF is_none(r) THEN None
       ELSE CASE unwrap(r) = "One" -> Some(1)
              [] unwrap(r) = "Two" -> Some(2)
              [] unwrap(r) = "Three" -> Some(3)
              [] unwrap(r) = "Four" -> Some(4)
              [] unwrap(r) = "Five" -> Some(5)
              [] OTHER -> None

\* The match of tag_type on tag.tag_type().
tag_type_name(tt) ==
    CASE tt = "AiffText" -> Some("AIFF")
      [] tt = "Ape" -> Some("APE")
      [] tt = "Id3v1" -> Some("ID3V1")
      [] tt = "Id3v2" -> Some("ID3V2")
      [] tt = "Mp4Ilst" -> Some("ILST")
      [] tt = "RiffInfo" -> Some("RIFF")
      [] tt = "VorbisComments" -> Some("VORBIS")
      [] OTHER -> None

\* parse_replaygain_value(tag.get_string(key)?)
get_gain(tag, key) ==
    IF is_none(get_string(tag, key)) THEN None
    ELSE parse_replaygain_value(unwrap(get_string(tag, key)))

\* The key each replay-gain getter reads.
gain_key ==
    [album_replay_gain |-> "ReplayGainAlbumGain",
     album_replay_peak |-> "ReplayGainAlbumPeak",
     track_replay_gain |-> "ReplayGainTrackGain",
     track_replay_peak |-> "ReplayGainTrackPeak"]

\* The closure a getter hands to try_tag, by the getter's name.
read_closure(name, tag) ==
    CASE name = "title" -> get_title(tag)
      [] name = "composer" -> get_composer(tag)
      [] name = "artist" -> get_string(tag, "TrackArtist")
      [] name = "album" -> get_string(tag, "AlbumTitle")
      [] name = "year" -> get_year(tag)
      [] name = "genre" -> get_string(tag, "Genre")
      [] name = "track_number" -> get_u32_from_string(tag, "TrackNumber")
      [] name = "disc_number" -> get_u32_from_string(tag, "DiscNumber")
      [] name = "track_total" -> get_u32_from_string(tag, "TrackTotal")
      [] name = "discs_total" -> get_u32_from_string(tag, "DiscTotal")
      [] name = "comment" -> get_string(tag, "Comment")
      [] name = "album_artist" -> get_string(tag, "AlbumArtist")
      [] name = "conductor" -> get_string(tag, "Conductor")
      [] name = "lyricist" -> get_string(tag, "Lyricist")
      [] name = "publisher" -> get_string(tag, "Publisher")
      [] name = "lyrics" -> get_string(tag, "Lyrics")
      [] name = "copyright" -> get_string(tag, "CopyrightMessage")
      [] name \in DOMAIN gain_key -> get_gain(tag, gain_key[name])
      [] name = "rating" -> get_rating(tag)
      [] name = "pictures" -> from_lofty_picture_slice(tag.pictures)
      [] name = "tag_type" -> tag_type_name(tag.tag_type)

\* try_tag(f): Disposed, or f on the selected tag (None when no tag).
try_tag(name) ==
    IF ~inner_ok THEN Err(Disposed)
    ELSE LET file == unwrap(inner).file
             i == try_tag_index(file)
         IN IF i = 0 THEN Ok(None) ELSE Ok(read_closure(name, file.tags[i]))

\* The closure of set_text_field and of set_rating: insert the text, or
\* remove the key.
put_text(tag, item_key, value) ==
    IF is_some(value)
    THEN insert_text(tag, item_key, unwrap(value))
    ELSE remove_key(tag, item_key)

\* try_tag_mut(f) with f = put_text(_, item_key, value).
try_tag_mut(item_key, value) ==
    IF ~inner_ok
    THEN inner' = inner /\ result' = Err(Disposed)
    ELSE LET st == unwrap(inner)
             i == try_tag_mut_index(st.file)
         IN IF i = 0
            THEN inner' = inner /\ result' = Err(NoTagPresent)
            ELSE /\ inner' = Some([st EXCEPT !.file.tags[i] =
                                      put_text(@, item_key, value)])
                 /\ result' = Ok(<<>>)

set_text_field(item_key, value) == try_tag_mut(item_key, value)

tag_type ==
    /\ Tick
    /\ tagLog' = <<>>
    /\ op' = Call("tag_type", <<>>)
    /\ result' = try_tag("tag_type")
    /\ fsLog' = <<>>
    /\ UNCHANGED <<wasm, inner, fs>>

title ==
    /\ Tick
    /\ tagLog' = <<>>
    /\ op' = Call("title", <<>>)
    /\ result' = try_tag("title")
    /\ fsLog' = <<>>
    /\ UNCHANGED <<wasm, inner, fs>>

set_title(value) ==
    /\ Tick
    /\ tagLog' = <<>>
    /\ op' = Call("set_title", value)
    /\ try_tag_mut("TrackTitle", value)
    /\ fsLog' = <<>>
    /\ UNCHANGED <<wasm, fs>>

composer ==
    /\ Tick
    /\ tagLog' = <<>>
    /\ op' = Call("composer", <<>>)
    /\ result' = try_tag("composer")
    /\ fsLog' = <<>>
    /\ UNCHANGED <<wasm, inner, fs>>

set_composer(value) ==
    /\ Tick
    /\ tagLog' = <<>>
    /\ op' = Call("set_composer", value)
    /\ set_text_field("Composer", value)
    /\ fsLog' = <<>>
    /\ UNCHANGED <<wasm, fs>>

rating ==
    /\ Tick
    /\ tagLog' = <<>>
    /\ op' = Call("rating", <<>>)
    /\ result' = try_tag("rating")
    /\ fsLog' = <<>>
    /\ UNCHANGED <<wasm, inner, fs>>

\* The u8 -> StarRating match of set_rating; None for any other integer.
star_of(value) ==
    CASE value = 1 -> Some("One")
      [] value = 2 -> Some("Two")
      [] value = 3 -> Some("Three")
      [] value = 4 -> Some("Four")
      [] value = 5 -> Some("Five")
      [] OTHER -> None

set_rating(value) ==
    /\ Tick
    /\ tagLog' = <<>>
    /\ op' = Call("set_rating", value)
    /\ IF is_some(value) /\ is_none(star_of(unwrap(value)))
       THEN inner' = inner /\ result' = Err(InvalidArgument)
       ELSE try_tag_mut("Popularimeter",
                        IF is_some(value)
                        THEN Some(PopmText[unwrap(star_of(unwrap(value)))])
                        ELSE None)
    /\ fsLog' = <<>>
    /\ UNCHANGED <<wasm, fs>>

----------------------------------------------------------------------------
(* Replay-gain accessors *)

\* The formatter a gain setter hands to set_gain_value, by its name.
format_closure(fname, value) ==
    CASE fname = "format_replaygain_gain" -> format_replaygain_gain(value)
      [] fname = "format_replaygain_peak" -> format_replaygain_peak(value)

set_gain_value(item_key, value, fname) ==
    try_tag_mut(item_key,
                IF is_some(value) THEN Some(format_closure(fname, unwrap(value)))
                ELSE None)

track_replay_gain ==
    /\ Tick
    /\ tagLog' = <<>>
    /\ op' = Call("track_replay_gain", <<>>)
    /\ result' = try_tag("track_replay_gain")
    /\ fsLog' = <<>>
    /\ UNCHANGED <<wasm, inner, fs>>

set_track_replay_gain(value) ==
    /\ Tick
    /\ tagLog' = <<>>
    /\ op' = Call("set_track_replay_gain", value)
    /\ set_gain_value("ReplayGainTrackGain", value, "format_replaygain_gain")
    /\ fsLog' = <<>>
    /\ UNCHANGED <<wasm, fs>>

track_replay_peak ==
    /\ Tick
    /\ tagLog' = <<>>
    /\ op' = Call("track_replay_peak", <<>>)
    /\ result' = try_tag("track_replay_peak")
    /\ fsLog' = <<>>
    /\ UNCHANGED <<wasm, inner, fs>>

set_track_replay_peak(value) ==
    /\ Tick
    /\ tagLog' = <<>>
    /\ op' = Call("set_track_replay_peak", value)
    /\ set_gain_value("ReplayGainTrackPeak", value, "format_replaygain_peak")
    /\ fsLog' = <<>>
    /\ UNCHANGED <<wasm, fs>>

----------------------------------------------------------------------------
(* The remaining field accessors *)

\* u32::to_string of a number setter's argument, None for a clear.
number_text(value) ==
    IF is_some(value) THEN Some(nat_text(unwrap(value))) ELSE None

\* Timestamp { year, ..Default::default() }.to_string(): the year in at
\* least four digits.
year_text(value) ==
    IF is_none(value) THEN None
    ELSE IF unwrap(value) < 10000 THEN Some(padded_text(unwrap(value), 4))
    ELSE Some(nat_text(unwrap(value)))

artist ==
    /\ Tick
    /\ tagLog' = <<>>
    /\ op' = Call("artist", <<>>)
    /\ result' = try_tag("artist")
    /\ fsLog' = <<>>
    /\ UNCHANGED <<wasm, inner, fs>>

set_artist(value) ==
    /\ Tick
    /\ tagLog' = <<>>
    /\ op' = Call("set_artist", value)
    /\ try_tag_mut("TrackArtist", value)
    /\ fsLog' = <<>>
    /\ UNCHANGED <<wasm, fs>>

album ==
    /\ Tick
    /\ tagLog' = <<>>
    /\ op' = Call("album", <<>>)
    /\ result' = try_tag("album")
    /\ fsLog' = <<>>
    /\ UNCHANGED <<wasm, inner, fs>>

set_album(value) ==
    /\ Tick
    /\ tagLog' = <<>>
    /\ op' = Call("set_album", value)
    /\ try_tag_mut("AlbumTitle", value)
    /\ fsLog' = <<>>
    /\ UNCHANGED <<wasm, fs>>

year ==
    /\ Tick
    /\ tagLog' = <<>>
    /\ op' = Call("year", <<>>)
    /\ result' = try_tag("year")
    /\ fsLog' = <<>>
    /\ UNCHANGED <<wasm, inner, fs>>

set_year(value) ==
    /\ Tick
    /\ tagLog' = <<>>
    /\ op' = Call("set_year", value)
    /\ try_tag_mut("RecordingDate", year_text(value))
    /\ fsLog' = <<>>
    /\ UNCHANGED <<wasm, fs>>

genre ==
    /\ Tick
    /\ tagLog' = <<>>
    /\ op' = Call("genre", <<>>)
    /\ result' = try_tag("genre")
    /\ fsLog' = <<>>
    /\ UNCHANGED <<wasm, inner, fs>>

set_genre(value) ==
    /\ Tick
    /\ tagLog' = <<>>
    /\ op' = Call("set_genre", value)
    /\ try_tag_mut("Genre", value)
    /\ fsLog' = <<>>
    /\ UNCHANGED <<wasm, fs>>

track_number ==
    /\ Tick
    /\ tagLog' = <<>>
    /\ op' = Call("track_number", <<>>)
    /\ result' = try_tag("track_number")
    /\ fsLog' = <<>>
    /\ UNCHANGED <<wasm, inner, fs>>

set_track_number(value) ==
    /\ Tick
    /\ tagLog' = <<>>
    /\ op' = Call("set_track_number", value)
    /\ try_tag_mut("TrackNumber", number_text(value))
    /\ fsLog' = <<>>
    /\ UNCHANGED <<wasm, fs>>

disc_number ==
    /\ Tick
    /\ tagLog' = <<>>
    /\ op' = Call("disc_number", <<>>)
    /\ result' = try_tag("disc_number")
    /\ fsLog' = <<>>
    /\ UNCHANGED <<wasm, inner, fs>>

set_disc_number(value) ==
    /\ Tick
    /\ tagLog' = <<>>
    /\ op' = Call("set_disc_number", value)
    /\ try_tag_mut("DiscNumber", number_text(value))
    /\ fsLog' = <<>>
    /\ UNCHANGED <<wasm, fs>>

track_total ==
    /\ Tick
    /\ tagLog' = <<>>
    /\ op' = Call("track_total", <<>>)
    /\ result' = try_tag("track_total")
    /\ fsLog' = <<>>
    /\ UNCHANGED <<wasm, inner, fs>>

set_track_total(value) ==
    /\ Tick
    /\ tagLog' = <<>>
    /\ op' = Call("set_track_total", value)
    /\ try_tag_mut("TrackTotal", number_text(value))
    /\ fsLog' = <<>>
    /\ UNCHANGED <<wasm, fs>>

discs_total ==
    /\ Tick
    /\ tagLog' = <<>>
    /\ op' = Call("discs_total", <<>>)
    /\ result' = try_tag("discs_total")
    /\ fsLog' = <<>>
    /\ UNCHANGED <<wasm, inner, fs>>

set_discs_total(value) ==
    /\ Tick
    /\ tagLog' = <<>>
    /\ op' = Call("set_discs_total", value)
    /\ try_tag_mut("DiscTotal", number_text(value))
    /\ fsLog' = <<>>
    /\ UNCHANGED <<wasm, fs>>

comment ==
    /\ Tick
    /\ tagLog' = <<>>
    /\ op' = Call("comment", <<>>)
    /\ result' = try_tag("comment")
    /\ fsLog' = <<>>
    /\ UNCHANGED <<wasm, inner, fs>>

set_comment(value) ==
    /\ Tick
    /\ tagLog' = <<>>
    /\ op' = Call("set_comment", value)
    /\ try_tag_mut("Comment", value)
    /\ fsLog' = <<>>
    /\ UNCHANGED <<wasm, fs>>

album_artist ==
    /\ Tick
    /\ tagLog' = <<>>
    /\ op' = Call("album_artist", <<>>)
    /\ result' = try_tag("album_artist")
    /\ fsLog' = <<>>
    /\ UNCHANGED <<wasm, inner, fs>>

set_album_artist(value) ==
    /\ Tick
    /\ tagLog' = <<>>
    /\ op' = Call("set_album_artist", value)
    /\ set_text_field("AlbumArtist", value)
    /\ fsLog' = <<>>
    /\ UNCHANGED <<wasm, fs>>

conductor ==
    /\ Tick
    /\ tagLog' = <<>>
    /\ op' = Call("conductor", <<>>)
    /\ result' = try_tag("conductor")
    /\ fsLog' = <<>>
    /\ UNCHANGED <<wasm, inner, fs>>

set_conductor(value) ==
    /\ Tick
    /\ tagLog' = <<>>
    /\ op' = Call("set_conductor", value)
    /\ set_text_field("Conductor", value)
    /\ fsLog' = <<>>
    /\ UNCHANGED <<wasm, fs>>

lyricist ==
    /\ Tick
    /\ tagLog' = <<>>
    /\ op' = Call("lyricist", <<>>)
    /\ result' = try_tag("lyricist")
    /\ fsLog' = <<>>
    /\ UNCHANGED <<wasm, inner, fs>>

set_lyricist(value) ==
    /\ Tick
    /\ tagLog' = <<>>
    /\ op' = Call("set_lyricist", value)
    /\ set_text_field("Lyricist", value)
    /\ fsLog' = <<>>
    /\ UNCHANGED <<wasm, fs>>

publisher ==
    /\ Tick
    /\ tagLog' = <<>>
    /\ op' = Call("publisher", <<>>)
    /\ result' = try_tag("publisher")
    /\ fsLog' = <<>>
    /\ UNCHANGED <<wasm, inner, fs>>

set_publisher(value) ==
    /\ Tick
    /\ tagLog' = <<>>
    /\ op' = Call("set_publisher", value)
    /\ set_text_field("Publisher", value)
    /\ fsLog' = <<>>
    /\ UNCHANGED <<wasm, fs>>

lyrics ==
    /\ Tick
    /\ tagLog' = <<>>
    /\ op' = Call("lyrics", <<>>)
    /\ result' = try_tag("lyrics")
    /\ fsLog' = <<>>
    /\ UNCHANGED <<wasm, inner, fs>>

set_lyrics(value) ==
    /\ Tick
    /\ tagLog' = <<>>
    /\ op' = Call("set_lyrics", value)
    /\ set_text_field("Lyrics", value)
    /\ fsLog' = <<>>
    /\ UNCHANGED <<wasm, fs>>

copyright ==
    /\ Tick
    /\ tagLog' = <<>>
    /\ op' = Call("copyright", <<>>)
    /\ result' = try_tag("copyright")
    /\ fsLog' = <<>>
    /\ UNCHANGED <<wasm, inner, fs>>

set_copyright(value) ==
    /\ Tick
    /\ tagLog' = <<>>
    /\ op' = Call("set_copyright", value)
    /\ set_text_field("CopyrightMessage", value)
    /\ fsLog' = <<>>
    /\ UNCHANGED <<wasm, fs>>

album_replay_gain ==
    /\ Tick
    /\ tagLog' = <<>>
    /\ op' = Call("album_replay_gain", <<>>)
    /\ result' = try_tag("album_replay_gain")
    /\ fsLog' = <<>>
    /\ UNCHANGED <<wasm, inner, fs>>

set_album_replay_gain(value) ==
    /\ Tick
    /\ tagLog' = <<>>
    /\ op' = Call("set_album_replay_gain", value)
    /\ set_gain_value("ReplayGainAlbumGain", value, "format_replaygain_gain")
    /\ fsLog' = <<>>
    /\ UNCHANGED <<wasm, fs>>

album_replay_peak ==
    /\ Tick
    /\ tagLog' = <<>>
    /\ op' = Call("album_replay_peak", <<>>)
    /\ result' = try_tag("album_replay_peak")
    /\ fsLog' = <<>>
    /\ UNCHANGED <<wasm, inner, fs>>

set_album_replay_peak(value) ==
    /\ Tick
    /\ tagLog' = <<>>
    /\ op' = Call("set_album_replay_peak", value)
    /\ set_gain_value("ReplayGainAlbumPeak", value, "format_replaygain_peak")
    /\ fsLog' = <<>>
    /\ UNCHANGED <<wasm, fs>>

----------------------------------------------------------------------------
(* Reconciliation of the picture list (set_pictures) *)

\* One picture operation issued on the tag; indices count from 0.
SetAt(index, picture) == [kind |-> "set", index |-> index, picture |-> Some(picture)]

RemoveAt(index) == [kind |-> "remove", index |-> index, picture |-> None]

\* for (i, pic) in new_pics.into_iter().enumerate() { tag.set_picture(i, ..) }
set_calls(new_pics) ==
    [i \in 1..Len(new_pics) |-> SetAt(i - 1, to_lofty_picture(new_pics[i]))]

\* Faulty variant: the removals run in ascending order.
remove_calls_ascending(new_len, old_len) ==
    [j \in 1..(old_len - new_len) |-> RemoveAt(new_len + j - 1)]

\* (new_len..old_len).rev().for_each(|i| tag.remove_picture(i))
remove_calls(new_len, old_len) ==
    [j \in 1..(old_len - new_len) |-> RemoveAt(old_len - j)]

\* Faulty variant: the surplus is removed before the sets.
reconcile_calls_removes_first(new_pics, old_len) ==
    IF Len(new_pics) < old_len
    THEN remove_calls(Len(new_pics), old_len) \o set_calls(new_pics)
    ELSE set_calls(new_pics)

\* The operations the closure of set_pictures issues, in order.
reconcile_calls(new_pics, old_len) ==
    IF Len(new_pics) < old_len
    THEN set_calls(new_pics) \o remove_calls(Len(new_pics), old_len)
    ELSE set_calls(new_pics)

\* Whether the tag operation can run without a panic on this tag.
call_in_bounds(tag, call) ==
    call.kind = "remove" => remove_picture_in_bounds(tag, call.index)

apply_call(tag, call) ==
    IF call.kind = "set" THEN set_picture(tag, call.index, unwrap(call.picture))
    ELSE remove_picture(tag, call.index)

\* The tag after the operations that ran without a panic.
RECURSIVE apply_calls(_, _)
apply_calls(tag, cs) ==
    IF cs = <<>> \/ ~call_in_bounds(tag, Head(cs)) THEN tag
    ELSE apply_calls(apply_call(tag, Head(cs)), Tail(cs))

\* Whether some operation of the sequence panics.
RECURSIVE calls_panic(_, _)
calls_panic(tag, cs) ==
    IF cs = <<>> THEN FALSE
    ELSE IF ~call_in_bounds(tag, Head(cs)) THEN TRUE
    ELSE calls_panic(apply_call(tag, Head(cs)), Tail(cs))

\* The log of the operations that ran: each with the picture count of the
\* tag at the moment it was issued.
RECURSIVE log_calls(_, _)
log_calls(tag, cs) ==
    IF cs = <<>> THEN <<>>
    ELSE <<[kind |-> Head(cs).kind, index |-> Head(cs).index,
            picture |-> Head(cs).picture, count |-> picture_count(tag)]>>
         \o (IF ~call_in_bounds(tag, Head(cs)) THEN <<>>
             ELSE log_calls(apply_call(tag, Head(cs)), Tail(cs)))

\* A panic inside the closure unwinds out of the call.
Panicked == Error("GenericFailure", "panic")

pictures ==
    /\ Tick
    /\ tagLog' = <<>>
    /\ op' = Call("pictures", <<>>)
    /\ result' = try_tag("pictures")
    /\ fsLog' = <<>>
    /\ UNCHANGED <<wasm, inner, fs>>

\* set_pictures: try_tag_mut with the reconciling closure.
set_pictures(value) ==
    /\ Tick
    /\ op' = Call("set_pictures", value)
    /\ IF ~inner_ok
       THEN inner' = inner /\ result' = Err(Disposed) /\ tagLog' = <<>>
       ELSE LET st == unwrap(inner)
                i == try_tag_mut_index(st.file)
            IN IF i = 0
               THEN inner' = inner /\ result' = Err(NoTagPresent) /\ tagLog' = <<>>
               ELSE LET tag == st.file.tags[i]
                        new_pics == IF is_some(value) THEN unwrap(value) ELSE <<>>
                        old_len == picture_count(tag)
                        cs == reconcile_calls(new_pics, old_len)
                    IN /\ inner' = Some([st EXCEPT !.file.tags[i] =
                                            apply_calls(tag, cs)])
                       /\ result' = IF calls_panic(tag, cs)
                                    THEN Err(Panicked) ELSE Ok(<<>>)
                       /\ tagLog' = log_calls(tag, cs)
    /\ fsLog' = <<>>
    /\ UNCHANGED <<wasm, fs>>

----------------------------------------------------------------------------
(* Audio properties *)

Lossless == {"Flac", "Ape", "Aiff", "Wav", "WavPack"}

\* Faulty variant: the sample-rate comparison admits 44100 itself.
quality_of_from_cd_rate(file) ==
    IF file.file_type \notin Lossless THEN "HQ"
    ELSE IF /\ is_some(file.props.sample_rate)
            /\ is_some(file.props.bit_depth)
            /\ unwrap(file.props.sample_rate) >= 44100
            /\ unwrap(file.props.bit_depth) >= 16
    THEN "HiRes"
    ELSE "SQ"

quality_of(file) ==
    IF file.file_type \notin Lossless THEN "HQ"
    ELSE IF /\ is_some(file.props.sample_rate)
            /\ is_some(file.props.bit_depth)
            /\ unwrap(file.props.sample_rate) > 44100
            /\ unwrap(file.props.bit_depth) >= 16
    THEN "HiRes"
    ELSE "SQ"

quality ==
    /\ Tick
    /\ tagLog' = <<>>
    /\ op' = Call("quality", <<>>)
    /\ result' = IF ~inner_ok THEN Err(Disposed)
                 ELSE Ok(<<quality_of(unwrap(inner).file)>>)
    /\ fsLog' = <<>>
    /\ UNCHANGED <<wasm, inner, fs>>

\* file.properties().bit_depth()
bit_depth ==
    /\ Tick
    /\ tagLog' = <<>>
    /\ op' = Call("bit_depth", <<>>)
    /\ result' = IF ~inner_ok THEN Err(Disposed)
                 ELSE Ok(unwrap(inner).file.props.bit_depth)
    /\ fsLog' = <<>>
    /\ UNCHANGED <<wasm, inner, fs>>

\* file.properties().sample_rate()
sample_rate ==
    /\ Tick
    /\ tagLog' = <<>>
    /\ op' = Call("sample_rate", <<>>)
    /\ result' = IF ~inner_ok THEN Err(Disposed)
                 ELSE Ok(unwrap(inner).file.props.sample_rate)
    /\ fsLog' = <<>>
    /\ UNCHANGED <<wasm, inner, fs>>

\* file.properties().channels()
channels ==
    /\ Tick
    /\ tagLog' = <<>>
    /\ op' = Call("channels", <<>>)
    /\ result' = IF ~inner_ok THEN Err(Disposed)
                 ELSE Ok(unwrap(inner).file.props.channels)
    /\ fsLog' = <<>>
    /\ UNCHANGED <<wasm, inner, fs>>

\* file.properties().duration().as_millis() as u32: the cast keeps every count
\* of milliseconds below 2^32, which the durations of the model are.
duration ==
    /\ Tick
    /\ tagLog' = <<>>
    /\ op' = Call("duration", <<>>)
    /\ result' = IF ~inner_ok THEN Err(Disposed)
                 ELSE Ok(unwrap(inner).file.props.duration_ms)
    /\ fsLog' = <<>>
    /\ UNCHANGED <<wasm, inner, fs>>

\* The estimate is computed in f64.  Duration::as_secs_f64 is
\* secs as f64 + nanos as f64 / 1e9, each operation rounded to 53 bits, so
\* for a duration of s seconds and m milliseconds the denominator
\* duration_secs * 1000.0 is the f64 next to 1000 * s + m, not always that
\* number itself.  The fraction m / 1000 is followed here bit by bit.

\* m * 2^n = 1000 * (the first n bits of m / 1000) + frac_rem(m, n)
RECURSIVE frac_rem(_, _)
frac_rem(m, n) == IF n = 0 THEN m ELSE (2 * frac_rem(m, n - 1)) % 1000

\* The i-th bit of m / 1000 after the point.
frac_bit(m, i) == (2 * frac_rem(m, i - 1)) \div 1000

\* as_secs_f64() * 1000.0 > dur_ms, for a duration of dur_ms milliseconds.
\* x is m / 1000 rounded to 53 bits (its last bit is bit tx of the
\* fraction), y is s + x rounded to 53 bits (t bits after the point), and
\* err is 1000 * y - dur_ms in units of 2^-t; the product is rounded to the
\* f64 above dur_ms when err is more than half a step of dur_ms.
millis_f64_above(dur_ms) ==
    LET s == dur_ms \div 1000
        m == dur_ms % 1000
        p == CHOOSE i \in 1..10 :
                 frac_bit(m, i) = 1 /\ \A j \in 1..(i - 1) : frac_bit(m, j) = 0
        tx == 52 + p
        rx == frac_rem(m, tx)
        cx == IF 2 * rx > 1000 \/ (2 * rx = 1000 /\ frac_bit(m, tx) = 1)
              THEN 1 ELSE 0
        ey == IF s = 0 THEN -p ELSE floor_log2(s)
        t == IF s = 0 THEN tx ELSE 52 - ey
        first == frac_bit(m, t + 1)
        ones == \A i \in (t + 2)..tx : frac_bit(m, i) = 1
        zero == \A i \in (t + 2)..tx : frac_bit(m, i) = 0
        up == IF s = 0 THEN cx
              ELSE IF cx = 1
              THEN (IF first = 1 /\ ones THEN 1
                    ELSE IF ones THEN frac_bit(m, t) ELSE first)
              ELSE (IF first = 1 /\ ~zero THEN 1
                    ELSE IF first = 1 THEN frac_bit(m, t) ELSE 0)
        err == 1000 * up - frac_rem(m, t)
    IN IF m = 0 THEN FALSE
       ELSE err > Pow2(floor_log2(dur_ms) - ey - 1)

\* ((bytes as f64 * 8.0) / (duration_secs * 1000.0)).round(), the duration
\* in milliseconds.  The f64 quotient is on the same side of every half as
\* the exact one, except when the exact quotient is a half: then it is
\* below the half if the denominator is above dur_ms, and rounds down.
round_kbps(bytes, dur_ms) ==
    LET q == (16 * bytes) \div (2 * dur_ms)
        r == (16 * bytes) % (2 * dur_ms)
    IN IF r > dur_ms THEN q + 1
       ELSE IF r < dur_ms THEN q
       ELSE IF millis_f64_above(dur_ms) THEN q ELSE q + 1

bit_rate_of(st) ==
    IF is_some(st.file.props.audio_bitrate) THEN st.file.props.audio_bitrate
    ELSE IF st.file.props.duration_ms = 0 THEN None
    ELSE LET bitrate_kbps == round_kbps(ByteLen(st.buffer),
                                        st.file.props.duration_ms)
         IN IF bitrate_kbps >= 8 /\ bitrate_kbps <= 10000
            THEN Some(bitrate_kbps) ELSE None

bit_rate ==
    /\ Tick
    /\ tagLog' = <<>>
    /\ op' = Call("bit_rate", <<>>)
    /\ result' = IF ~inner_ok THEN Err(Disposed)
                 ELSE Ok(bit_rate_of(unwrap(inner)))
    /\ fsLog' = <<>>
    /\ UNCHANGED <<wasm, inner, fs>>

----------------------------------------------------------------------------
(* Arguments of the calls *)

MaxRatingArg == 6

Texts == {"a"}

TextArgs == {None} \cup {Some(t) : t \in Texts}

RatingArgs == {None} \cup {Some(n) : n \in 0..MaxRatingArg}

\* The longest picture list a caller passes.
MaxPictures == 3

\* A picture as its constructor builds it, and one whose caller changed the
\* cover type to a text that is no APE key.
FrontPng == MetaPicture("Cover Art (Front)", Some("image/png"), None, "d1")

OddPic == MetaPicture("sleeve", Some("image/x"), Some("back"), "d2")

MetaPictures == {FrontPng, OddPic}

\* Every list of at most MaxPictures pictures.
PictureLists ==
    UNION {[1..n -> MetaPictures] : n \in 0..MaxPictures}

\* The picture arguments of the session model: clear, the empty list, a
\* list of one and a list of two.
PictureArgs == {None, Some(<<>>), Some(<<FrontPng>>), Some(<<OddPic, FrontPng>>)}

PathArgs == {None} \cup {Some(p) : p \in Paths}

\* Arguments of the number setters, of set_year and of the album gain and
\* peak setters (a gain in sixteenths, a peak in 256ths): clear and a value.
NumberArgs == {None, Some(12)}

YearArgs == {None, Some(1999)}

AlbumGainArgs == {None, Some(-8)}

AlbumPeakArgs == {None, Some(255)}

\* Arguments of the track gain and peak setters in the session model:
\* clear, -8/16 = -0.5 and 128/256 = 0.5.
TrackGainArgs == {None, Some(-8)}

TrackPeakArgs == {None, Some(128)}

Next ==
    \/ \E bytes \in Buffers : load_buffer(bytes)
    \/ \E path \in Paths : load_path(path)
    \/ dispose
    \/ is_disposed
    \/ \E path \in PathArgs, lofty_ok \in BOOLEAN : save(path, lofty_ok)
    \/ buffer
    \/ quality
    \/ bit_depth
    \/ bit_rate
    \/ sample_rate
    \/ channels
    \/ duration
    \/ tag_type
    \/ title
    \/ \E value \in TextArgs : set_title(value)
    \/ composer
    \/ \E value \in TextArgs : set_composer(value)
    \/ rating
    \/ \E value \in RatingArgs : set_rating(value)
    \/ track_replay_gain
    \/ \E value \in TrackGainArgs : set_track_replay_gain(value)
    \/ track_replay_peak
    \/ \E value \in TrackPeakArgs : set_track_replay_peak(value)
    \/ pictures
    \/ \E value \in PictureArgs : set_pictures(value)
    \/ artist
    \/ \E value \in TextArgs : set_artist(value)
    \/ album
    \/ \E value \in TextArgs : set_album(value)
    \/ year
    \/ \E value \in YearArgs : set_year(value)
    \/ genre
    \/ \E value \in TextArgs : set_genre(value)
    \/ track_number
    \/ \E value \in NumberArgs : set_track_number(value)
    \/ disc_number
    \/ \E value \in NumberArgs : set_disc_number(value)
    \/ track_total
    \/ \E value \in NumberArgs : set_track_total(value)
    \/ discs_total
    \/ \E value \in NumberArgs : set_discs_total(value)
    \/ comment
    \/ \E value \in TextArgs : set_comment(value)
    \/ album_artist
    \/ \E value \in TextArgs : set_album_artist(value)
    \/ conductor
    \/ \E value \in TextArgs : set_conductor(value)
    \/ lyricist
    \/ \E value \in TextArgs : set_lyricist(value)
    \/ publisher
    \/ \E value \in TextArgs : set_publisher(value)
    \/ lyrics
    \/ \E value \in TextArgs : set_lyrics(value)
    \/ copyright
    \/ \E value \in TextArgs : set_copyright(value)
    \/ album_replay_gain
    \/ \E value \in AlbumGainArgs : set_album_replay_gain(value)
    \/ album_replay_peak
    \/ \E value \in AlbumPeakArgs : set_album_replay_peak(value)

Spec == Init /\ [][Next]_vars

----------------------------------------------------------------------------
(* The picture accessors on their own: a session loaded from a file whose  *)
(* selected tag holds any list of at most MaxPictures pictures, and then   *)
(* only pictures and set_pictures, with every list of that length.         *)

\* A file whose one tag, of the primary type, carries the given pictures.
ArtImage(pics) ==
    Image("Mpeg", <<[Tag("Id3v2", TitleT) EXCEPT !.pictures = pics]>>,
          LossyProps, 1000)

ArtInputs ==
    {ArtImage([i \in 1..Len(l) |-> to_lofty_picture(l[i])]) : l \in PictureLists}

ArtArgs == {None} \cup {Some(l) : l \in PictureLists}

\* The state after new() and load_buffer(bytes) of such a file.
InitArt ==
    /\ wasm \in BOOLEAN
    /\ \E bytes \in ArtInputs :
           /\ inner = Some(session_of_buffer(bytes, probe_read(bytes).val))
           /\ op = Call("load_buffer", bytes)
    /\ fs = InitFs
    /\ result = Ok(<<>>)
    /\ fsLog = <<>>
    /\ tagLog = <<>>
    /\ calls = 1

NextArt ==
    \/ pictures
    \/ \E value \in ArtArgs : set_pictures(value)

SpecArt == InitArt /\ [][NextArt]_vars

----------------------------------------------------------------------------
(* The audio properties on their own: files of several types, sample       *)
(* rates, bit depths, reported bit rates, durations and sizes, loaded from *)
(* a buffer or from a path, and then quality and bit_rate.                 *)

FileTypes == {"Mpeg", "Opus", "Mp4", "Flac", "Wav", "Aiff"}

SampleRates == {None, Some(44100), Some(44101), Some(96000)}

BitDepths == {None, Some(15), Some(16), Some(24)}

\* Files that differ in what quality reads; the container reports a rate.
QualityInputs ==
    {Image(ft, <<Tag(primary_tag_type(ft), TitleT)>>,
           Props(sr, bd, Some(320), 10000), 1000) :
         ft \in FileTypes, sr \in SampleRates, bd \in BitDepths}

\* <<reported bit rate, duration in ms, size of the audio in bytes>>
RateCases ==
    {<<Some(320), 10000, 1000>>, <<Some(0), 0, 1000>>,
     <<None, 0, 1000>>,
     <<None, 10000, 1249985>>,
     <<None, 10000, 8985>>, <<None, 10000, 9359>>, <<None, 10000, 9360>>,
     <<None, 10000, 12500609>>, <<None, 10000, 12500610>>,
     <<None, 1000, 6249985>>, <<None, 3000, 985>>,
     <<None, 1136, 1050>>, <<None, 1136, 1192>>, <<None, 1136, 1420056>>}

\* Files that differ in what bit_rate reads.
RateInputs ==
    {Image("Flac", <<Tag("VorbisComments", TitleT)>>,
           Props(Some(44100), Some(16), c[1], c[2]),
           c[3]) : c \in RateCases}

PropInputs == QualityInputs \cup RateInputs

\* The file system of this model: PathA holds any one of the files.
InitProps ==
    /\ wasm = FALSE
    /\ inner = None
    /\ \E bytes \in PropInputs :
           fs = [p \in Paths |-> IF p = PathA THEN Some(bytes) ELSE None]
    /\ op = Call("new", <<>>)
    /\ result = Ok(<<>>)
    /\ fsLog = <<>>
    /\ tagLog = <<>>
    /\ calls = 0

\* An edit and a save in place come in because bit_rate reads the length
\* of the stored buffer, which a save replaces.
NextProps ==
    \/ \E bytes \in RateInputs : load_buffer(bytes)
    \/ load_path(PathA)
    \/ \E value \in TextArgs : set_artist(value)
    \/ \E lofty_ok \in BOOLEAN : save(None, lofty_ok)
    \/ quality
    \/ bit_rate

SpecProps == InitProps /\ [][NextProps]_vars

----------------------------------------------------------------------------
(* The replay-gain accessors on their own: a file whose selected tag can   *)
(* store the values and one whose selected tag cannot, and every gain and  *)
(* peak of the bounded ranges.                                             *)

\* The largest gain, in sixteenths, and the largest peak, in 256ths, of
\* the ranges; the ranges are joined by a few values with more digits.
MaxGain == 9

MaxPeak == 5

GainValues == (-MaxGain..MaxGain) \cup {-203, 199, 1599}

PeakValues == (-1..MaxPeak) \cup {255, 256, 2817}

GainArgs == {None} \cup {Some(v) : v \in GainValues}

PeakArgs == {None} \cup {Some(v) : v \in PeakValues}

NextGain ==
    \/ \E bytes \in {MpegV1V2, MpegV1} : load_buffer(bytes)
    \/ track_replay_gain
    \/ \E value \in GainArgs : set_track_replay_gain(value)
    \/ track_replay_peak
    \/ \E value \in PeakArgs : set_track_replay_peak(value)

SpecGain == Init /\ [][NextGain]_vars

----------------------------------------------------------------------------
(* Gain and peak texts as another tagging program may have written them:   *)
(* a session loaded from a file whose selected tag holds one such text     *)
(* under the gain key or the peak key, and the two getters that decode it. *)

\* The most unit suffixes in a row at the end of a stored text.
MaxSuffixes == 2

\* Up to n unit suffixes, in either accepted spelling or in capitals, one
\* after another.
RECURSIVE SuffixRuns(_)
SuffixRuns(n) ==
    IF n = 0 THEN {<<>>}
    ELSE SuffixRuns(n - 1)
         \cup {run \o unit : run \in SuffixRuns(n - 1),
                              unit \in {<<"d", "B">>, <<"d", "b">>, <<"D", "B">>}}

\* Optional whitespace, what stands where the number should (numbers in
\* the forms str::parse::<f64> accepts, with and without an exponent, the
\* special values, nothing, letters, a cut exponent), optional whitespace,
\* the suffixes, optional whitespace.
StoredTexts ==
    LET Pads == {<<>>, <<" ">>, <<"\t", "U+00A0">>}
        NumberCores ==
            {<<>>, <<"1", ".", "0", "0">>, <<"+", "1", ".", "2", "3">>,
             <<"-", ".", "5">>, <<"5", ".">>, <<"a", "b", "c">>,
             <<"1", "e", "2">>, <<"1", ".", "5", "E", "-", "3">>,
             <<"2", "e", "3", "0", "9">>, <<"1", "e">>,
             <<"-", "i", "n", "f">>, <<"N", "a", "N">>}
    IN {left \o core \o mid \o run \o right :
           left \in Pads, core \in NumberCores, mid \in Pads,
           run \in SuffixRuns(MaxSuffixes), right \in Pads}

DecodeImage(key, text) ==
    Image("Mpeg", <<Tag("Id3v2", [NoItems EXCEPT ![key] = Some(text)])>>,
          LossyProps, 1000)

DecodeInputs ==
    {DecodeImage(key, text) :
        key \in {"ReplayGainTrackGain", "ReplayGainTrackPeak"},
        text \in StoredTexts}

\* The state after new() and load_buffer(bytes) of such a file.
InitDecode ==
    /\ wasm \in BOOLEAN
    /\ \E bytes \in DecodeInputs :
           /\ inner = Some(session_of_buffer(bytes, probe_read(bytes).val))
           /\ op = Call("load_buffer", bytes)
    /\ fs = InitFs
    /\ result = Ok(<<>>)
    /\ fsLog = <<>>
    /\ tagLog = <<>>
    /\ calls = 1

NextDecode ==
    \/ track_replay_gain
    \/ track_replay_peak

SpecDecode == InitDecode /\ [][NextDecode]_vars

----------------------------------------------------------------------------
(* The tag-type getter on its own: files of every container type, each     *)
(* carrying one or two tags of the types that container can hold.          *)

\* Files of every type with one tag, or with two tags of different types.
TagTypeInputs ==
    LET TagListsOf(ft) ==
            {<<Tag(a, NoItems)>> : a \in TagTypesOf(ft)}
            \cup {l \in {<<Tag(a, NoItems), Tag(b, NoItems)>> :
                             a \in TagTypesOf(ft), b \in TagTypesOf(ft)} :
                      l[1] # l[2]}
    IN UNION {{Image(ft, tags, LossyProps, 1000) : tags \in TagListsOf(ft)} :
                 ft \in FileTypes \cup {"Ape"}}

NextTagType ==
    \/ \E bytes \in TagTypeInputs : load_buffer(bytes)
    \/ tag_type

SpecTagType == Init /\ [][NextTagType]_vars

----------------------------------------------------------------------------
(* Vocabulary of the properties *)

Loaded == is_some(inner)

Unloaded == is_none(inner)

\* Each field's key, getter and setter: the text fields, the number
\* fields, and the fields with a representation of their own.
TextFields ==
    {<<"TrackTitle", "title", "set_title">>,
     <<"TrackArtist", "artist", "set_artist">>,
     <<"AlbumTitle", "album", "set_album">>,
     <<"Genre", "genre", "set_genre">>,
     <<"Comment", "comment", "set_comment">>,
     <<"AlbumArtist", "album_artist", "set_album_artist">>,
     <<"Composer", "composer", "set_composer">>,
     <<"Conductor", "conductor", "set_conductor">>,
     <<"Lyricist", "lyricist", "set_lyricist">>,
     <<"Publisher", "publisher", "set_publisher">>,
     <<"Lyrics", "lyrics", "set_lyrics">>,
     <<"CopyrightMessage", "copyright", "set_copyright">>}

NumberFields ==
    {<<"RecordingDate", "year", "set_year">>,
     <<"TrackNumber", "track_number", "set_track_number">>,
     <<"DiscNumber", "disc_number", "set_disc_number">>,
     <<"TrackTotal", "track_total", "set_track_total">>,
     <<"DiscTotal", "discs_total", "set_discs_total">>}

OtherFields ==
    {<<"Popularimeter", "rating", "set_rating">>,
     <<"", "pictures", "set_pictures">>,
     <<"ReplayGainTrackGain", "track_replay_gain", "set_track_replay_gain">>,
     <<"ReplayGainTrackPeak", "track_replay_peak", "set_track_replay_peak">>,
     <<"ReplayGainAlbumGain", "album_replay_gain", "set_album_replay_gain">>,
     <<"ReplayGainAlbumPeak", "album_replay_peak", "set_album_replay_peak">>}

Fields == TextFields \cup NumberFields \cup OtherFields

GetterNames == {f[2] : f \in Fields}

SetterNames == {f[3] : f \in Fields}

LoadNames == {"load_buffer", "load_path"}

\* A setter argument the setter accepts: any text or clear, a rating 1..5.
ValidArg(call) ==
    call.name = "set_rating" /\ is_some(call.arg)
        => unwrap(call.arg) \in 1..5

\* The operations that need a loaded session.
AccessNames ==
    GetterNames \cup SetterNames
    \cup {"buffer", "quality", "bit_depth", "bit_rate", "sample_rate",
          "channels", "duration", "tag_type", "save"}

----------------------------------------------------------------------------
(* C1: on an unloaded session every getter, every setter given a valid     *)
(* argument, buffer, quality, bitRate and save fails with Disposed and      *)
(* leaves the session unloaded; only a load can load it again.             *)

C1_UnloadedAccessFailsDisposed ==
    [][Unloaded =>
          /\ (op'.name \in AccessNames /\ ValidArg(op')
                  => result' = Err(Disposed) /\ is_none(inner'))
          /\ (op'.name \notin LoadNames => is_none(inner'))]_vars

C1_Witness ==
    /\ Unloaded
    /\ op.name = "save"
    /\ result = Err(Disposed)
    /\ calls >= 3

----------------------------------------------------------------------------
(* C2: the session is unloaded, or loaded with exactly one source: a       *)
(* non-empty buffer and no path, or a path and an empty buffer.            *)

BufferMode(st) == Len(st.buffer) > 0 /\ is_none(st.path)

PathMode(st) == Len(st.buffer) = 0 /\ is_some(st.path)

C2_OneSourceWhenLoaded ==
    Loaded => (BufferMode(unwrap(inner)) \/ PathMode(unwrap(inner)))

C2_Witness ==
    /\ Loaded
    /\ op.name = "save" /\ is_some(op.arg) /\ result.ok
    /\ BufferMode(unwrap(inner))

----------------------------------------------------------------------------
(* C3: a load succeeds only when its input parses and exposes a tag; an    *)
(* input that does not parse, or a path that does not exist, fails with    *)
(* InvalidInput, a parsed input with no tag fails with NoTagPresent, and   *)
(* after either failure no session is loaded.                              *)

\* The bytes the last load was given: the caller's buffer, or the file at
\* the path (a load leaves the file system as it was).
LoadInput ==
    IF op.name = "load_buffer" THEN Some(op.arg) ELSE fs[op.arg]

Parses(input) == is_some(input) /\ probe_read(unwrap(input)).ok

ParsedWithTag(input) ==
    Parses(input) /\ Len(probe_read(unwrap(input)).val.tags) > 0

LoadOutcome ==
    /\ result.ok => ParsedWithTag(LoadInput) /\ Loaded
    /\ ~Parses(LoadInput) => result = Err(InvalidInput)
    /\ Parses(LoadInput) /\ ~ParsedWithTag(LoadInput)
           => result = Err(NoTagPresentAtLoad)
    /\ ~result.ok => Unloaded

\* The claim as stated: for both loads, in every build.
C3_Original == op.name \in LoadNames => LoadOutcome

\* As amended: loadFromPath outside a sandboxed build.
C3_LoadOutcome ==
    (op.name = "load_buffer" \/ (op.name = "load_path" /\ ~wasm)) => LoadOutcome

C3_Witness ==
    /\ op.name = "load_path" /\ ~wasm
    /\ Parses(LoadInput) /\ ~ParsedWithTag(LoadInput)
    /\ result = Err(NoTagPresentAtLoad)
    /\ Unloaded
    /\ calls >= 2

----------------------------------------------------------------------------
(* C4: dispose always leaves the session unloaded and changes nothing when *)
(* it already is; isDisposed answers true iff no session is loaded and     *)
(* changes nothing.                                                        *)

C4_DisposeIdempotent ==
    [][/\ op'.name = "dispose"
            => /\ is_none(inner') /\ result'.ok
               /\ fs' = fs
               /\ (Unloaded => inner' = inner)
       /\ op'.name = "is_disposed"
            => /\ result' = Ok(<<is_none(inner)>>)
               /\ inner' = inner /\ fs' = fs]_vars

C4_Witness ==
    /\ op.name = "is_disposed"
    /\ result = Ok(<<TRUE>>)
    /\ Unloaded
    /\ calls >= 3

----------------------------------------------------------------------------
(* C5: a save that fails leaves the session's stored buffer and stored     *)
(* path exactly as they were before the call.                              *)

C5_FailedSaveKeepsBufferAndPath ==
    [][(op'.name = "save" /\ ~result'.ok /\ Loaded)
          => /\ is_some(inner')
             /\ unwrap(inner').buffer = unwrap(inner).buffer
             /\ unwrap(inner').path = unwrap(inner).path]_vars

----------------------------------------------------------------------------
(* C6: a successful save of a buffer-mode session replaces the buffer with *)
(* the serialization of the current tags, with or without a target path;   *)
(* a given target path then holds exactly the new buffer, written once     *)
(* after the serialization; the session stays in buffer mode.              *)

\* The parsed structure as a serialization carries it: every tag as its
\* format writes it, but for the tags that write nothing.
Serialized(file) ==
    LET written == [i \in 1..Len(file.tags) |-> as_written(file.tags[i])]
        Kept(tag) == ~is_empty(tag)
    IN [file EXCEPT !.tags = SelectSeq(written, Kept)]

C6_BufferSave ==
    [][(op'.name = "save" /\ result'.ok /\ Loaded
            /\ BufferMode(unwrap(inner)))
          => /\ is_some(inner')
             /\ BufferMode(unwrap(inner'))
             /\ unwrap(inner').file = unwrap(inner).file
             /\ probe_read(unwrap(inner').buffer) =
                    Ok(Serialized(unwrap(inner).file))
             /\ IF is_some(op'.arg)
                THEN /\ fs'[unwrap(op'.arg)] = Some(unwrap(inner').buffer)
                     /\ fsLog' = <<FsOp("write", None, unwrap(op'.arg), TRUE)>>
                     /\ \A p \in Paths \ {unwrap(op'.arg)} : fs'[p] = fs[p]
                ELSE fs' = fs /\ fsLog' = <<>>]_vars

\* A buffer-mode save to a target path after an edit: the buffer is no
\* longer one of the loaded inputs, and the target holds it.
C6_Witness ==
    /\ Loaded /\ BufferMode(unwrap(inner))
    /\ op.name = "save" /\ is_some(op.arg) /\ result.ok
    /\ unwrap(inner).buffer \notin Buffers
    /\ fs[unwrap(op.arg)] = Some(unwrap(inner).buffer)

----------------------------------------------------------------------------
(* C7: a path-mode save updates the target path when given, else the load  *)
(* path; the original file is copied to the target first exactly when a    *)
(* target is given and differs from the load path; a failed copy fails the *)
(* call with WriteFailed before any tag update.                            *)

HasKind(log, kind) == \E i \in 1..Len(log) : log[i].kind = kind

C7_PathSave ==
    [][(op'.name = "save" /\ Loaded /\ PathMode(unwrap(inner)))
          => LET st == unwrap(inner)
                 orig == unwrap(st.path)
                 target == IF is_some(op'.arg) THEN unwrap(op'.arg) ELSE orig
                 relocates == is_some(op'.arg) /\ unwrap(op'.arg) # orig
             IN /\ HasKind(fsLog', "copy") <=> relocates
                /\ relocates
                     => /\ fsLog'[1].kind = "copy"
                        /\ fsLog'[1].from = Some(orig)
                        /\ fsLog'[1].to = target
                        /\ ~fsLog'[1].ok
                             => /\ Len(fsLog') = 1
                                /\ ~result'.ok /\ IsWriteFailed(result'.err)
                                /\ fs' = fs
                /\ \A i \in 1..Len(fsLog') :
                       /\ fsLog'[i].kind \in {"copy", "save_to_path"}
                       /\ fsLog'[i].kind = "save_to_path"
                            => fsLog'[i].to = target /\ i = Len(fsLog')
                /\ result'.ok
                     => /\ HasKind(fsLog', "save_to_path")
                        /\ is_some(fs'[target])
                        /\ probe_read(unwrap(fs'[target])).val.tags =
                               Serialized(st.file).tags
                        /\ \A p \in Paths \ {target} : fs'[p] = fs[p]]_vars

\* A relocating save that succeeded: the copy, then the tag update.
C7_Witness ==
    /\ Loaded /\ PathMode(unwrap(inner))
    /\ op.name = "save" /\ result.ok
    /\ Len(fsLog) = 2
    /\ fsLog[1].kind = "copy" /\ fsLog[1].ok
    /\ fsLog[2].kind = "save_to_path" /\ fsLog[2].to = PathOut
    /\ fs[PathOut] # fs[PathA]

----------------------------------------------------------------------------
(* C8: reads and writes select the same tag, the primary tag if the file   *)
(* has one and the first tag otherwise; so a text setter called with v is  *)
(* followed by the getter of that field returning v.                       *)

\* The rule of the specification: the first tag of the primary type, else
\* the first tag of the collection.
PrimaryOrFirst(file) ==
    LET prim == {i \in 1..Len(file.tags) :
                     file.tags[i].tag_type = primary_tag_type(file.file_type)}
    IN IF prim # {} THEN CHOOSE i \in prim : \A j \in prim : i <= j ELSE 1

SameTagRule(file) ==
    /\ try_tag_index(file) = PrimaryOrFirst(file)
    /\ try_tag_mut_index(file) = PrimaryOrFirst(file)

\* The tag the getters read in the current state.
SelectedTag == unwrap(inner).file.tags[try_tag_index(unwrap(inner).file)]

\* The claim as stated: every text field reads back what was set.
C8_Original ==
    /\ Loaded => SameTagRule(unwrap(inner).file)
    /\ \A f \in TextFields :
           (op.name = f[3] /\ is_some(op.arg) /\ result.ok)
               => try_tag(f[2]) = Ok(op.arg)

\* The part of the claim the code meets: both selections follow the rule.
C8_SameTag == Loaded => SameTagRule(unwrap(inner).file)

----------------------------------------------------------------------------
(* C9: a loaded session always exposes a tag, so on it no getter fails and *)
(* no setter fails with NoTagPresent.                                      *)

C9_LoadedHasTag ==
    /\ Loaded => /\ Len(unwrap(inner).file.tags) >= 1
                 /\ try_tag_mut_index(unwrap(inner).file) # 0
    /\ (Loaded /\ op.name \in GetterNames) => result.ok
    /\ op.name \in SetterNames => result.err # NoTagPresent

C9_Witness ==
    /\ Loaded
    /\ op.name = "set_title" /\ op.arg = None /\ result.ok
    /\ try_tag("title") = Ok(None)
    /\ calls >= 3

----------------------------------------------------------------------------
(* C10: on a loaded session setRating(r), r in 1..5, is followed by        *)
(* getRating() = r, setRating(clear) by getRating() = absent; any other    *)
(* integer fails with InvalidArgument and changes nothing.                 *)

\* What the rating getter returns on session value s.
RatingOf(s) ==
    get_rating(unwrap(s).file.tags[try_tag_index(unwrap(s).file)])

SelectedType(s) ==
    unwrap(s).file.tags[try_tag_index(unwrap(s).file)].tag_type

\* The claim as stated: every loaded session reads back r.
C10_Original ==
    [][(op'.name = "set_rating" /\ Loaded)
          => IF is_none(op'.arg)
             THEN result'.ok /\ RatingOf(inner') = None
             ELSE IF unwrap(op'.arg) \in 1..5
             THEN result'.ok /\ RatingOf(inner') = op'.arg
             ELSE /\ result' = Err(InvalidArgument)
                  /\ inner' = inner /\ fs' = fs]_vars

\* The part of the claim the code meets: clearing, and the integers outside
\* 1..5.
C10_ClearAndRange ==
    [][(op'.name = "set_rating" /\ Loaded)
          => IF is_none(op'.arg)
             THEN result'.ok /\ RatingOf(inner') = None
             ELSE IF unwrap(op'.arg) \in 1..5
             THEN result'.ok
             ELSE /\ result' = Err(InvalidArgument)
                  /\ inner' = inner /\ fs' = fs]_vars

----------------------------------------------------------------------------
(* C11: setRating called on an unloaded session fails with Disposed for    *)
(* every argument, integers outside 1..5 included: argument validation     *)
(* does not pre-empt the Disposed check.                                   *)

C11_SetRatingUnloadedDisposed ==
    [][(Unloaded /\ op'.name = "set_rating")
          => result' = Err(Disposed) /\ is_none(inner')]_vars

----------------------------------------------------------------------------
(* C12: for every current picture count O and every desired list of length *)
(* N, after setPictures(desired) the selected tag's picture list is the    *)
(* desired list exactly (length, items, order), and no remove issued on    *)
(* the way targets an index outside the list at the moment it is issued.   *)

\* The pictures of the tag the accessors select on session value s.
PicturesIn(s) == unwrap(s).file.tags[try_tag_index(unwrap(s).file)].pictures

\* The list a setPictures argument asks for: clear asks for the empty list.
Desired(arg) == IF is_some(arg) THEN unwrap(arg) ELSE <<>>

C12_PicturesEqualDesired ==
    [][(op'.name = "set_pictures" /\ Loaded)
          => LET desired == Desired(op'.arg)
             IN /\ result'.ok
                /\ is_some(inner')
                /\ Len(PicturesIn(inner')) = Len(desired)
                /\ \A i \in 1..Len(desired) :
                       PicturesIn(inner')[i] = to_lofty_picture(desired[i])
                /\ \A k \in 1..Len(tagLog') :
                       tagLog'[k].kind = "remove"
                           => /\ tagLog'[k].index >= 0
                              /\ tagLog'[k].index < tagLog'[k].count]_vars

\* A list of three reduced to a list of one of a different picture: the
\* first logged operation saw three pictures, one is left.
C12_Witness ==
    /\ Loaded
    /\ op.name = "set_pictures" /\ op.arg = Some(<<OddPic>>) /\ result.ok
    /\ Len(tagLog) = 3 /\ tagLog[1].count = 3
    /\ PicturesIn(inner) = <<to_lofty_picture(OddPic)>>

----------------------------------------------------------------------------
(* C13: reconciliation issues exactly N sets, at indices 0..N-1 ascending, *)
(* min(O,N) of them overwriting and max(0,N-O) appending; when N < O it    *)
(* then issues exactly O-N removals at indices O-1 down to N, descending,  *)
(* all after the sets; when N >= O it issues no removal.                   *)

Min(a, b) == IF a <= b THEN a ELSE b

Max(a, b) == IF a >= b THEN a ELSE b

\* The log entries that are sets landing inside the list / past its end.
Overwrites(log) ==
    {k \in 1..Len(log) : log[k].kind = "set" /\ log[k].index < log[k].count}

Appends(log) ==
    {k \in 1..Len(log) : log[k].kind = "set" /\ log[k].index >= log[k].count}

C13_ReconcileOrder ==
    [][(op'.name = "set_pictures" /\ Loaded)
          => LET N == Len(Desired(op'.arg))
                 O == Len(PicturesIn(inner))
             IN /\ Len(tagLog') = N + Max(0, O - N)
                /\ \A k \in 1..N :
                       /\ tagLog'[k].kind = "set"
                       /\ tagLog'[k].index = k - 1
                       /\ tagLog'[k].picture =
                              Some(to_lofty_picture(Desired(op'.arg)[k]))
                /\ Cardinality(Overwrites(tagLog')) = Min(O, N)
                /\ Cardinality(Appends(tagLog')) = Max(0, N - O)
                /\ \A k \in (N + 1)..Len(tagLog') :
                       /\ tagLog'[k].kind = "remove"
                       /\ tagLog'[k].index = O - (k - N)
                /\ N >= O => \A k \in 1..Len(tagLog') : tagLog'[k].kind = "set"]_vars

\* O = 1, N = 3: one overwrite, two appends, no removal.
C13_Witness ==
    /\ Loaded
    /\ op.name = "set_pictures" /\ result.ok
    /\ Len(Desired(op.arg)) = 3
    /\ Len(tagLog) = 3
    /\ tagLog[1].count = 1
    /\ Overwrites(tagLog) = {1}
    /\ Appends(tagLog) = {2, 3}

----------------------------------------------------------------------------
(* C14: the picture getter returns absent iff the selected tag carries no  *)
(* picture and otherwise the full list in stored order; setting clear or   *)
(* the empty list removes every picture, highest index first, so that the  *)
(* next get returns absent.                                                *)

\* What the picture getter returns on session value s.
GetPicturesOf(s) == from_lofty_picture_slice(PicturesIn(s))

C14_PicturesGetterAndClear ==
    [][/\ (op'.name = "pictures" /\ Loaded)
            => /\ result'.ok /\ inner' = inner
               /\ (result'.val = None) <=> (Len(PicturesIn(inner)) = 0)
               /\ Len(PicturesIn(inner)) > 0
                    => /\ Len(unwrap(result'.val)) = Len(PicturesIn(inner))
                       /\ \A i \in 1..Len(PicturesIn(inner)) :
                              unwrap(result'.val)[i] =
                                  from_lofty_picture(PicturesIn(inner)[i])
       /\ (op'.name = "set_pictures" /\ Loaded /\ Desired(op'.arg) = <<>>)
            => LET O == Len(PicturesIn(inner))
               IN /\ result'.ok
                  /\ Len(PicturesIn(inner')) = 0
                  /\ Len(tagLog') = O
                  /\ \A k \in 1..O :
                         tagLog'[k].kind = "remove" /\ tagLog'[k].index = O - k
                  /\ GetPicturesOf(inner') = None]_vars

\* A clear of a tag that held three pictures: three removals, from index 2
\* down, after which the getter has nothing to return.
C14_Witness ==
    /\ Loaded
    /\ op.name = "set_pictures" /\ op.arg = None /\ result.ok
    /\ Len(tagLog) = 3
    /\ tagLog[1].kind = "remove" /\ tagLog[1].index = 2
    /\ GetPicturesOf(inner) = None

----------------------------------------------------------------------------
(* C15: on a loaded session quality is HQ for a lossy file type whatever   *)
(* the sample rate and bit depth; for a lossless one it is HiRes iff both  *)
(* are known, the sample rate is above 44100 and the bit depth at least    *)
(* 16, and SQ in every other case.                                         *)

LosslessFormats == {"Flac", "Ape", "Aiff", "Wav", "WavPack"}

Known(o) == o # <<>>

ExpectedQuality(file) ==
    IF file.file_type \notin LosslessFormats THEN "HQ"
    ELSE IF Known(file.props.sample_rate) /\ Known(file.props.bit_depth)
    THEN IF file.props.sample_rate[1] > 44100 /\ file.props.bit_depth[1] >= 16
         THEN "HiRes" ELSE "SQ"
    ELSE "SQ"

C15_Quality ==
    (Loaded /\ op.name = "quality")
        => result = Ok(<<ExpectedQuality(unwrap(inner).file)>>)

\* A lossless file at 44100 Hz / 16 bit, loaded from a path: SQ.
C15_Witness ==
    /\ Loaded /\ PathMode(unwrap(inner))
    /\ op.name = "quality"
    /\ unwrap(inner).file.file_type = "Wav"
    /\ unwrap(inner).file.props.sample_rate = Some(44100)
    /\ unwrap(inner).file.props.bit_depth = Some(16)
    /\ result = Ok(<<"SQ">>)

----------------------------------------------------------------------------
(* C16: on a loaded session, from a buffer or from a path, bitRate is the  *)
(* container-reported rate when there is one; otherwise absent when the    *)
(* duration is zero; otherwise e = round(fileSizeBytes * 8 / (seconds *    *)
(* 1000)) over the size of the loaded file, returned iff 8 <= e <= 10000.  *)

\* n / d rounded to the nearest integer, halves upwards.
Rounded(n, d) ==
    CHOOSE e \in (n \div d)..(n \div d + 1) :
        2 * e * d - d <= 2 * n /\ 2 * n < 2 * e * d + d

\* The size of the file the session was loaded from.
LoadedFileSize(st) ==
    IF is_some(st.path) THEN ByteLen(unwrap(fs[unwrap(st.path)]))
    ELSE ByteLen(st.buffer)

ExpectedBitRate(st) ==
    IF Known(st.file.props.audio_bitrate) THEN st.file.props.audio_bitrate
    ELSE IF st.file.props.duration_ms = 0 THEN None
    ELSE LET e == Rounded(LoadedFileSize(st) * 8, st.file.props.duration_ms)
         IN IF 8 <= e /\ e <= 10000 THEN Some(e) ELSE None

C16_BitRate ==
    (Loaded /\ op.name = "bit_rate")
        => result = Ok(ExpectedBitRate(unwrap(inner)))

\* The estimate falls exactly between two integers.
EstimateIsHalf(st) ==
    /\ ~Known(st.file.props.audio_bitrate)
    /\ st.file.props.duration_ms # 0
    /\ (16 * LoadedFileSize(st)) % (2 * st.file.props.duration_ms)
           = st.file.props.duration_ms

\* The same statement for sessions loaded from a buffer only, off the exact
\* halves: there the quotient is taken in f64 over as_secs_f64() * 1000.0,
\* which for some durations lies above the millisecond count, and the
\* estimate then rounds downwards (1065 bytes over 1136 ms give 7).
C16_BitRateOfBuffer ==
    (/\ Loaded /\ op.name = "bit_rate" /\ BufferMode(unwrap(inner))
     /\ ~EstimateIsHalf(unwrap(inner)))
        => result = Ok(ExpectedBitRate(unwrap(inner)))

\* 1250000 bytes over 10 s, loaded from a buffer: 1000.
C16_BufferWitness ==
    /\ Loaded /\ BufferMode(unwrap(inner))
    /\ op.name = "bit_rate"
    /\ ByteLen(unwrap(inner).buffer) = 1250000
    /\ unwrap(inner).file.props.duration_ms = 10000
    /\ result = Ok(Some(1000))

----------------------------------------------------------------------------
(* C17: between a load and the next load or dispose, the bytes buffer()    *)
(* returns change only through a successful save of a buffer-mode session: *)
(* no setter changes them, and a session loaded from a path keeps an empty *)
(* buffer through every setter and save.                                   *)

C17_BufferChangesOnlyBySave ==
    [][(Loaded /\ op'.name \notin LoadNames \cup {"dispose"})
          => /\ is_some(inner')
             /\ unwrap(inner').buffer # unwrap(inner).buffer
                  => /\ op'.name = "save" /\ result'.ok
                     /\ BufferMode(unwrap(inner))
             /\ PathMode(unwrap(inner)) => unwrap(inner').buffer = <<>>
             /\ op'.name = "buffer" => result' = Ok(<<unwrap(inner).buffer>>)]_vars

----------------------------------------------------------------------------
(* C18: a setter called with clear removes its field, so that the getter   *)
(* of that field then returns absent; a setter called with a value or with *)
(* clear leaves what the getter of every other field returns unchanged.    *)

\* What getter `name` returns on session value s.
Read(name, s) ==
    read_closure(name, unwrap(s).file.tags[try_tag_index(unwrap(s).file)])

\* The getter of the field a setter writes.
GetterOf(setter) == (CHOOSE f \in Fields : f[3] = setter)[2]

C18_ClearAndFrame ==
    [][(op'.name \in SetterNames /\ Loaded)
          => /\ is_some(inner')
             /\ (op'.arg = None)
                  => result'.ok /\ Read(GetterOf(op'.name), inner') = None
             /\ \A g \in GetterNames \ {GetterOf(op'.name)} :
                    Read(g, inner') = Read(g, inner)]_vars

\* The title cleared on a tag that holds a composer, a rating and a
\* picture: the title reads absent, the others read as before.
C18_Witness ==
    /\ Loaded
    /\ op.name = "set_title" /\ op.arg = None /\ result.ok
    /\ Read("title", inner) = None
    /\ Read("composer", inner) = Some("a")
    /\ Read("rating", inner) # None
    /\ calls >= 4

----------------------------------------------------------------------------
(* C20: for every gain v, decoding the encoded gain gives v rounded to     *)
(* two decimals, and for every peak p, decoding the encoded peak gives p   *)
(* rounded to six decimals; an encoded gain is an explicit sign, digits    *)
(* with exactly two decimals, one space and dB; an encoded peak is digits  *)
(* with exactly six decimals and no suffix.                                *)

\* sign, digits, ".", two digits, " dB"
GainShape(text) ==
    LET n == Len(text)
    IN /\ n >= 8
       /\ text[1] \in {"+", "-"}
       /\ \A i \in 2..(n - 6) : IsDigit(text[i])
       /\ text[n - 5] = "."
       /\ IsDigit(text[n - 4]) /\ IsDigit(text[n - 3])
       /\ SubSeq(text, n - 2, n) = <<" ", "d", "B">>

\* an optional "-", digits, ".", six digits, nothing else
PeakShape(text) ==
    LET body == IF Len(text) > 0 /\ text[1] = "-" THEN Tail(text) ELSE text
        n == Len(body)
    IN /\ n >= 8
       /\ \A i \in 1..(n - 7) : IsDigit(body[i])
       /\ body[n - 6] = "."
       /\ \A i \in (n - 5)..n : IsDigit(body[i])

\* mag / scale in units of 10^-decimals, rounded to the nearest whole
\* number of them, a tie to the even one.
RoundedUnits(mag, scale, decimals) ==
    (mag \div scale) * Pow10(decimals)
    + round_half_even((mag % scale) * Pow10(decimals), scale)

\* d is the gain of v sixteenths rounded to two decimals: the f64 nearest
\* to that whole number of hundredths, with the sign of v.
IsGainRounded(d, v) ==
    d = f64_of_decimal(v < 0, nat_text(RoundedUnits(Abs(v), 16, 2)), -2)

\* d is the peak of v 256ths rounded to six decimals: the f64 nearest to
\* that whole number of millionths, with the sign of v.
IsPeakRounded(d, v) ==
    d = f64_of_decimal(v < 0, nat_text(RoundedUnits(Abs(v), 256, 6)), -6)

\* The text the selected tag holds under a key.
StoredText(key) == get_string(SelectedTag, key)

C20_GainPeakRoundTrip ==
    /\ (op.name = "set_track_replay_gain" /\ is_some(op.arg))
           => LET text == format_replaygain_gain(unwrap(op.arg))
                  d == parse_replaygain_value(text)
              IN /\ GainShape(text)
                 /\ is_some(d) /\ IsGainRounded(unwrap(d), unwrap(op.arg))
                 /\ (Loaded /\ result.ok
                        /\ Supports(SelectedTag.tag_type, "ReplayGainTrackGain"))
                      => /\ StoredText("ReplayGainTrackGain") = Some(text)
                         /\ Read("track_replay_gain", inner) = d
    /\ (op.name = "set_track_replay_peak" /\ is_some(op.arg))
           => LET text == format_replaygain_peak(unwrap(op.arg))
                  d == parse_replaygain_value(text)
              IN /\ PeakShape(text)
                 /\ is_some(d) /\ IsPeakRounded(unwrap(d), unwrap(op.arg))
                 /\ (Loaded /\ result.ok
                        /\ Supports(SelectedTag.tag_type, "ReplayGainTrackPeak"))
                      => /\ StoredText("ReplayGainTrackPeak") = Some(text)
                         /\ Read("track_replay_peak", inner) = d

\* The gain 3/16 = 0.1875 stored as "+0.19 dB" and read as the f64 0.19 =
\* 3422735716801577 * 2^-54, on a tag that already holds the peak
\* 2/256 = 0.0078125 as "0.007812", read as 9006622793988689 * 2^-60.
C20_Witness ==
    /\ Loaded
    /\ op.name = "set_track_replay_gain" /\ op.arg = Some(3) /\ result.ok
    /\ StoredText("ReplayGainTrackGain") =
           Some(<<"+", "0", ".", "1", "9", " ", "d", "B">>)
    /\ Read("track_replay_gain", inner) =
           Some(Finite(FALSE,
                       <<"3", "4", "2", "2", "7", "3", "5", "7", "1", "6", "8", "0", "1", "5", "7", "7">>,
                       -54))
    /\ StoredText("ReplayGainTrackPeak") =
           Some(<<"0", ".", "0", "0", "7", "8", "1", "2">>)
    /\ Read("track_replay_peak", inner) =
           Some(Finite(FALSE,
                       <<"9", "0", "0", "6", "6", "2", "2", "7", "9", "3", "9", "8", "8", "6", "8", "9">>,
                       -60))

----------------------------------------------------------------------------
(* C21: decoding a stored gain or peak text never fails, and it returns a  *)
(* number exactly when the text, trimmed, with one optional trailing dB or *)
(* db removed, and trimmed again, is a decimal number; every other text    *)
(* (empty, a suffix alone, letters, DB, a repeated suffix) decodes to      *)
(* absent, and a bare number decodes to that number.                       *)

EndsWith(text, pat) ==
    /\ Len(text) >= Len(pat)
    /\ SubSeq(text, Len(text) - Len(pat) + 1, Len(text)) = pat

\* The text with one trailing dB or db removed, if it ends in one.
WithoutOneSuffix(text) ==
    IF EndsWith(text, <<"d", "B">>) \/ EndsWith(text, <<"d", "b">>)
    THEN SubSeq(text, 1, Len(text) - 2)
    ELSE text

\* A decimal number: a text the number parser reads that is written in
\* digits, which leaves out the words inf, infinity and nan.
IsDecimalNumber(text) ==
    is_some(parse_f64(text)) /\ \E i \in 1..Len(text) : IsDigit(text[i])

\* The number the stated grammar reads, absent when it reads none.
GrammarDecode(text) ==
    LET number == trim(WithoutOneSuffix(trim(text)))
    IN IF IsDecimalNumber(number) THEN parse_f64(number) ELSE None

GainKeyOf(getter) ==
    IF getter = "track_replay_gain" THEN "ReplayGainTrackGain"
    ELSE "ReplayGainTrackPeak"

C21_DecodeGrammar ==
    (Loaded /\ op.name \in {"track_replay_gain", "track_replay_peak"}
        /\ is_some(StoredText(GainKeyOf(op.name))))
        => result = Ok(GrammarDecode(unwrap(StoredText(GainKeyOf(op.name)))))

----------------------------------------------------------------------------
(* C22: on a loaded session tagType returns the documented name of the     *)
(* selected tag's format, one of ID3V1, ID3V2, APE, VORBIS, MP4, AIFF and  *)
(* RIFF (MP4 for an MP4 atom-list tag), or null for a format that is none  *)
(* of these.                                                               *)

DocumentedName(tt) ==
    CASE tt = "Id3v1" -> Some("ID3V1")
      [] tt = "Id3v2" -> Some("ID3V2")
      [] tt = "Ape" -> Some("APE")
      [] tt = "VorbisComments" -> Some("VORBIS")
      [] tt = "Mp4Ilst" -> Some("MP4")
      [] tt = "AiffText" -> Some("AIFF")
      [] tt = "RiffInfo" -> Some("RIFF")
      [] OTHER -> None

C22_TagTypeNames ==
    (Loaded /\ op.name = "tag_type")
        => result = Ok(DocumentedName(SelectedTag.tag_type))

----------------------------------------------------------------------------
(* C23: a load that fails with InvalidInput or NoTagPresent (from          *)
(* loadFromBuffer, or from loadFromPath outside a sandbox) leaves the      *)
(* session unloaded even when one was loaded before the call: isDisposed() *)
(* is then true and the next field access fails with Disposed.             *)

\* The last call was a load that failed after the implicit disposal.
FailedLoad(call, res) ==
    /\ call.name \in LoadNames
    /\ ~res.ok
    /\ res.err \in {InvalidInput, NoTagPresentAtLoad}

C23_FailedLoadUnloads ==
    [][/\ FailedLoad(op', result') => is_none(inner')
       /\ FailedLoad(op, result)
            => /\ op'.name = "is_disposed" => result' = Ok(<<TRUE>>)
               /\ op'.name \in GetterNames \cup SetterNames
                    => result' = Err(Disposed)]_vars

----------------------------------------------------------------------------
(* C24: in a sandboxed build loadFromPath fails with UnsupportedEnvironment *)
(* before it disposes anything: a session loaded before the call is still  *)
(* loaded after it, with the same buffer, path and field values.           *)

C24_SandboxLoadPathKeepsSession ==
    [][(wasm /\ op'.name = "load_path")
          => /\ result' = Err(UnsupportedEnvironment)
             /\ Loaded
                  => /\ is_some(inner')
                     /\ unwrap(inner').buffer = unwrap(inner).buffer
                     /\ unwrap(inner').path = unwrap(inner).path
                     /\ \A g \in GetterNames : Read(g, inner') = Read(g, inner)
                     /\ unwrap(inner').file = unwrap(inner).file]_vars

\* A refused loadFromPath on a session that holds an edited title.
C24_Witness ==
    /\ wasm
    /\ op.name = "load_path" /\ result = Err(UnsupportedEnvironment)
    /\ Loaded
    /\ unwrap(inner).buffer = MpegV1V2
    /\ Read("title", inner) = Some("a")

----------------------------------------------------------------------------
(* C25: save on a loaded session never fails with NoTargetAvailable: every *)
(* loaded state holds a non-empty buffer or a stored path, so the branch   *)
(* for neither is never taken.                                             *)

HasTarget(st) == ~buffer_is_empty(st) \/ is_some(st.path)

C25_NoTargetUnreachable ==
    /\ Loaded => HasTarget(unwrap(inner))
    /\ op.name = "save" => result # Err(NoTargetAvailable)

\* save() with no argument went through on a session that holds no bytes,
\* only the path it was loaded from.
C25_Witness ==
    /\ Loaded
    /\ buffer_is_empty(unwrap(inner))
    /\ op = Call("save", None) /\ result.ok
    /\ HasKind(fsLog, "save_to_path")

----------------------------------------------------------------------------
(* C26: save never changes the session's stored path or its mode.  After   *)
(* save(targetPath) on a session loaded from a path the stored path is     *)
(* still the load path, so a later save() with no argument writes to the   *)
(* load path; a session loaded from a buffer never acquires a path.        *)

C26_SaveKeepsPathAndMode ==
    [][/\ (op'.name = "load_path" /\ result'.ok)
            => unwrap(inner').path = Some(op'.arg)
       /\ (op'.name = "load_buffer" /\ result'.ok)
            => unwrap(inner').path = None
       /\ (Loaded /\ op'.name \notin LoadNames \cup {"dispose"})
            => /\ is_some(inner')
               /\ unwrap(inner').path = unwrap(inner).path
               /\ BufferMode(unwrap(inner')) = BufferMode(unwrap(inner))
               /\ PathMode(unwrap(inner')) = PathMode(unwrap(inner))
       /\ (Loaded /\ op' = Call("save", None) /\ PathMode(unwrap(inner)))
            => /\ Len(fsLog') = 1
               /\ fsLog'[1].kind = "save_to_path"
               /\ fsLog'[1].to = unwrap(unwrap(inner).path)
               /\ \A p \in Paths \ {unwrap(unwrap(inner).path)} :
                      fs'[p] = fs[p]]_vars

\* load_path(PathA), save(PathOut), save(): the third call writes PathA.
C26_Witness ==
    /\ calls = 3
    /\ Loaded /\ PathMode(unwrap(inner))
    /\ unwrap(inner).path = Some(PathA)
    /\ is_some(fs[PathOut])
    /\ op = Call("save", None) /\ result.ok
    /\ fsLog = <<FsOp("save_to_path", None, PathA, TRUE)>>

----------------------------------------------------------------------------
(* C27: a failed save neither discards pending edits nor unloads the       *)
(* session: after save returns any error on a loaded session, the session  *)
(* is still loaded and every field getter returns what it returned before  *)
(* the call, so the save can be tried again.                               *)

C27_FailedSaveKeepsEdits ==
    [][(Loaded /\ op'.name = "save" /\ ~result'.ok)
          => /\ is_some(inner')
             /\ unwrap(inner').file = unwrap(inner).file
             /\ \A g \in GetterNames : Read(g, inner') = Read(g, inner)]_vars

\* A save that failed in serialization on a session whose title was edited
\* and not yet saved.
C27_Witness ==
    /\ Loaded
    /\ op.name = "save"
    /\ result = Err(WriteFailed("Failed to save buffer"))
    /\ Read("title", inner) = Some("a")
    /\ probe_read(unwrap(inner).buffer).val.tags # unwrap(inner).file.tags

====
